---- MODULE Spec2Model ----
(***************************************************************************)
(* Model of the herbapedia data-maintenance scripts.                       *)
(*                                                                         *)
(*  - the external linkers (GBIF: link-gbif.js, Wikidata: link-wikidata.js)*)
(*    as a batch state machine whose steps are the code's suspension       *)
(*    points (await fetch, await sleep);                                   *)
(*  - the translation filler (fill-translations.js) as a batch over files; *)
(*  - the synchronous batch scripts (the two validators, the name fixer,   *)
(*    the compound linker, the migration and the index builder) as one     *)
(*    batch machine whose script is chosen at start.                       *)
(***************************************************************************)
EXTENDS Integers, Sequences, FiniteSets, TLC

VARIABLES
    script,     \* which linker runs: "gbif" or "wikidata"
    dryRun,     \* DRY_RUN flag
    serviceUp,  \* environment: FALSE when the external service is unreachable
    files,      \* the corpus on disk: sequence of documents
    i,          \* main's loop index (1-based)
    pc,         \* position of the async main/process function
    entity,     \* the parsed document held in memory while it is processed
    term,       \* Wikidata: index into searchTerms
    inflight,   \* number of HTTP requests outstanding
    calls,      \* external calls made for the current document: name and answer
    delayed,    \* a sleep has completed since the last external call was issued
    everCalled, \* some external call has been issued in this run
    results,    \* main's results object
    writes,     \* number of writeFileSync calls per file
    runs,       \* number of completed batch runs
    fDryRun,    \* filler: DRY_RUN flag
    fFiles,     \* filler: the corpus on disk
    fOrig,      \* filler: the corpus as it was before the first run
    fI,         \* filler: index of the file main's loop is at
    fPc,        \* filler: "loop" or "summary"
    fLast,      \* filler: what processFile returned for the previous file
    fCounts,    \* filler: modifiedCount, errorCount and stats of main
    fWrites,    \* filler: number of writeFileSync calls per file
    fRuns,      \* filler: number of completed runs
    bScript,    \* batch: which synchronous script runs
    bDryRun,    \* batch: --dry-run flag
    bFiles,     \* batch: the corpus on disk
    bOrig,      \* batch: the corpus as it was before the first run
    bI,         \* batch: index of the file the loop is at
    bPc,        \* batch: "loop", "summary" (loop left), "exited" or "aborted"
    bDetails,   \* batch: per-document results, in processing order
    bSummary,   \* batch: the counters / report of the run
    bExit,      \* batch: process exit status, -1 while running
    bWrites,    \* batch: number of writeFileSync calls per file
    bRuns       \* batch: number of completed runs

linkVars == <<script, dryRun, serviceUp, files, i, pc, entity, term, inflight,
              calls, delayed, everCalled, results, writes, runs>>

fillVars == <<fDryRun, fFiles, fOrig, fI, fPc, fLast, fCounts, fWrites, fRuns>>

batchVars == <<bScript, bDryRun, bFiles, bOrig, bI, bPc, bDetails, bSummary, bExit,
               bWrites, bRuns>>

vars == <<linkVars, fillVars, batchVars>>

(***************************************************************************)
(* Bounds                                                                  *)
(***************************************************************************)
MaxFiles == 2
MaxRuns == 2
MaxFillFiles == 2

(***************************************************************************)
(* Program constants                                                       *)
(***************************************************************************)
MinConfidence == 80

(***************************************************************************)
(* URLs and sameAs links                                                   *)
(***************************************************************************)
GbifHost == "www.gbif.org"
WikidataHost == "www.wikidata.org"

\* String.prototype.includes of a URL for the two domains the linkers test
UrlIncludes(url, domain) ==
    \/ domain = "gbif.org" /\ url.host = GbifHost
    \/ domain = "wikidata.org" /\ url.host = WikidataHost

\* `https://www.gbif.org/species/${gbifId}`
GbifUrl(gbifId) == [host |-> GbifHost, id |-> gbifId]

\* `https://www.wikidata.org/wiki/${qid}`
WikidataUrl(qid) == [host |-> WikidataHost, id |-> qid]

\* typeof link === 'object' ? link['@id'] || link : link
LinkUrl(link) == link.url

ObjLink(url) == [form |-> "obj", url |-> url]
StrLink(url) == [form |-> "str", url |-> url]

\* Array.isArray(sameAs) ? sameAs : [sameAs]
LinksOf(sameAs) == sameAs.items

NoSameAs == [kind |-> "absent", items |-> <<>>]

HasGbifLink_ObjectsOnly(e) ==
    /\ e.sameAs.kind # "absent"
    /\ \E k \in 1..Len(LinksOf(e.sameAs)) :
          /\ LinksOf(e.sameAs)[k].form = "obj"
          /\ UrlIncludes(LinkUrl(LinksOf(e.sameAs)[k]), "gbif.org")

HasGbifLink(e) ==
    /\ e.sameAs.kind # "absent"
    /\ \E k \in 1..Len(LinksOf(e.sameAs)) :
          UrlIncludes(LinkUrl(LinksOf(e.sameAs)[k]), "gbif.org")

\* addGbifLink without the test for an entry with the same URL
AddGbifLink_AlwaysPush(e, gbifId) ==
    [e EXCEPT !.sameAs = [kind |-> "array",
                          items |-> Append(LinksOf(e.sameAs), ObjLink(GbifUrl(gbifId)))],
              !.gbifId = gbifId]

AddGbifLink(e, gbifId) ==
    LET arr == LinksOf(e.sameAs)
        present == \E k \in 1..Len(arr) : LinkUrl(arr[k]) = GbifUrl(gbifId)
    IN  [e EXCEPT !.sameAs = [kind |-> "array",
                              items |-> IF present THEN arr
                                        ELSE Append(arr, ObjLink(GbifUrl(gbifId)))],
                  !.gbifId = gbifId]

(***************************************************************************)
(* Scientific names: sequences of atoms. An atom is one of the substrings  *)
(* the linkers split on, or a run of other text.                           *)
(***************************************************************************)
NoName == <<>>
NameClean == <<"Panax ginseng">>
NameCited == <<"Panax ginseng", " ", "L.">>
\* a processed material, not a taxon: it matches SKIP_PATTERNS of the name fixer
NameProcessed == <<"Massa", " ", "Fermentata">>

\* s.split(sep)[0]
SplitHead(s, sep) ==
    IF \E k \in 1..Len(s) : s[k] = sep
    THEN SubSeq(s, 1, (CHOOSE k \in 1..Len(s) :
                          s[k] = sep /\ \A j \in 1..(k-1) : s[j] # sep) - 1)
    ELSE s

RECURSIVE TrimEnd(_)
TrimEnd(s) ==
    IF Len(s) > 0 /\ s[Len(s)] = " " THEN TrimEnd(SubSeq(s, 1, Len(s) - 1)) ELSE s

RECURSIVE TrimStart(_)
TrimStart(s) ==
    IF Len(s) > 0 /\ s[1] = " " THEN TrimStart(Tail(s)) ELSE s

\* .trim()
Trim(s) == TrimStart(TrimEnd(s))

\* the raw name submitted first
GbifCleanName_Raw(sci) == sci

GbifCleanName(sci) ==
    Trim(SplitHead(SplitHead(SplitHead(SplitHead(SplitHead(sci,
         "("), "L."), "DC."), "Thunb."), "Hort"))

(***************************************************************************)
(* The GBIF match service                                                  *)
(***************************************************************************)
Null == [isNull |-> TRUE, matchType |-> "", speciesKey |-> 0, confidence |-> 0]

Match(t, k, c) == [isNull |-> FALSE, matchType |-> t, speciesKey |-> k, confidence |-> c]

\* the bodies a 2xx answer can carry
MatchData ==
    {Match("NONE", 0, 100), Match("", 1, 95), Match("FUZZY", 0, 90)}
    \cup {Match("EXACT", 2, c) : c \in {MinConfidence - 1, MinConfidence}}

\* how a fetch settles
FetchOutcomes(D) ==
    {[kind |-> f, data |-> Null] : f \in {"timeout", "neterr", "http_error", "bad_json"}}
    \cup (IF serviceUp THEN {[kind |-> "ok", data |-> d] : d \in D} ELSE {})

\* a timed-out request that is not cancelled stays outstanding
AbortFetch_NoCancel(n) == n

\* controller.abort(): the timed-out request is cancelled
AbortFetch(n) == n - 1

\* the request count once the fetch has settled with outcome out
Settled(n, out) == IF out.kind = "timeout" THEN AbortFetch(n) ELSE n - 1

\* a failure that escapes instead of being turned into null
MatchGbifSpecies_Raises(out) ==
    IF out.kind = "ok" THEN out.data ELSE [Null EXCEPT !.matchType = "THROWN"]

\* matchGbifSpecies: the value the await yields
MatchGbifSpecies(out) == IF out.kind = "ok" THEN out.data ELSE Null

\* match && match.matchType && match.matchType !== 'NONE' && match.speciesKey
Usable(m) == ~m.isNull /\ m.matchType # "" /\ m.matchType # "NONE" /\ m.speciesKey # 0

\* confidence >= 80
Accepts(m) == Usable(m) /\ m.confidence >= MinConfidence

(***************************************************************************)
(* Documents                                                               *)
(***************************************************************************)
\* a plant entity file (entities/plants/{slug}/entity.jsonld)
PlantDoc(ok, sameAs, sci, gbifId) ==
    [ok |-> ok, sameAs |-> sameAs, sci |-> sci, gbifId |-> gbifId,
     ref |-> "", nameEn |-> ""]

Malformed == PlantDoc(FALSE, NoSameAs, NoName, 0)

\* the plant entities a corpus is drawn from
PlantDocs ==
    { Malformed,
      PlantDoc(TRUE, NoSameAs, NoName, 0),
      PlantDoc(TRUE, NoSameAs, NameClean, 0),
      PlantDoc(TRUE, NoSameAs, NameProcessed, 0),
      PlantDoc(TRUE, [kind |-> "array", items |-> <<ObjLink(WikidataUrl(1))>>], NameCited, 0),
      PlantDoc(TRUE, [kind |-> "array", items |-> <<ObjLink(WikidataUrl(1)), ObjLink(GbifUrl(1))>>],
               NameCited, 1),
      PlantDoc(TRUE, [kind |-> "single", items |-> <<StrLink(GbifUrl(1))>>], NameClean, 0) }

\* a TCM herb profile file (systems/tcm/herbs/{slug}/profile.jsonld)
ProfileDoc(ok, sameAs, ref, nameEn) ==
    [ok |-> ok, sameAs |-> sameAs, sci |-> NoName, gbifId |-> 0,
     ref |-> ref, nameEn |-> nameEn]

\* the TCM profiles a corpus is drawn from
ProfileDocs ==
    { Malformed,
      ProfileDoc(TRUE, NoSameAs, "", <<"Ren Shen">>),
      ProfileDoc(TRUE, NoSameAs, "plant/ginseng", <<"Ren Shen">>),
      ProfileDoc(TRUE, NoSameAs, "plant/unnamed", <<"Ren Shen">>),
      ProfileDoc(TRUE, [kind |-> "array", items |-> <<ObjLink(GbifUrl(1))>>],
                 "plant/ginseng#root", <<"Ren Shen">>),
      ProfileDoc(TRUE, [kind |-> "array", items |-> <<ObjLink(WikidataUrl(1))>>],
                 "plant/ginseng", <<"Ren Shen">>),
      ProfileDoc(TRUE, [kind |-> "single", items |-> <<StrLink(WikidataUrl(1))>>],
                 "plant/ginseng", <<>>) }

\* loadPlantEntities: plantMap, keyed `plant/${slug}`
PlantMapKeys == {"plant/ginseng", "plant/unnamed"}

PlantMap(ref) ==
    IF ref = "plant/ginseng" THEN [scientificName |-> NameCited, nameEn |-> <<"Ginseng">>]
    ELSE [scientificName |-> NoName, nameEn |-> <<>>]

(***************************************************************************)
(* The Wikidata services                                                   *)
(***************************************************************************)
HasWikidataLink(profile) ==
    /\ profile.sameAs.kind # "absent"
    /\ \E k \in 1..Len(LinksOf(profile.sameAs)) :
          UrlIncludes(LinkUrl(LinksOf(profile.sameAs)[k]), "wikidata.org")

AddWikidataLink(profile, qid) ==
    LET arr == LinksOf(profile.sameAs)
        present == \E k \in 1..Len(arr) : LinkUrl(arr[k]) = WikidataUrl(qid)
    IN  [profile EXCEPT !.sameAs = [kind |-> "array",
                                    items |-> IF present THEN arr
                                              ELSE Append(arr, ObjLink(WikidataUrl(qid)))]]

\* scientificName.split('(')[0].split('L.')[0].split('DC.')[0].trim()
WikidataCleanName(sci) == Trim(SplitHead(SplitHead(SplitHead(sci, "("), "L."), "DC."))

\* [...].filter(Boolean)
FilterBoolean(seq) ==
    LET F[k \in 0..Len(seq)] ==
            IF k = 0 THEN <<>>
            ELSE IF seq[k] = <<>> THEN F[k-1] ELSE Append(F[k-1], seq[k])
    IN  F[Len(seq)]

\* searchTerms of processHerbProfile
SearchTerms(profile) ==
    LET plant == PlantMap(profile.ref) IN
    FilterBoolean(<<WikidataCleanName(plant.scientificName), plant.scientificName,
                    profile.nameEn, plant.nameEn>>)

SearchHit(id, description) == [id |-> id, description |-> description]

\* the bodies wbsearchentities can answer with (data.search)
RestData ==
    { <<>>,
      <<SearchHit(2, "city in China")>>,
      <<SearchHit(2, ""), SearchHit(1, "species of plant")>> }

\* desc.includes('plant') || ... || desc.includes('flower')
PlantLike(description) == description = "species of plant"

\* index of the first plant-like result, 0 when there is none
FirstPlantLike(restResults) ==
    IF \E k \in 1..Len(restResults) : PlantLike(restResults[k].description)
    THEN CHOOSE k \in 1..Len(restResults) :
            /\ PlantLike(restResults[k].description)
            /\ \A j \in 1..(k-1) : ~PlantLike(restResults[j].description)
    ELSE 0

\* searchWikidataByLabel: the value the await yields
SearchWikidataByLabel(out) == IF out.kind = "ok" THEN out.data ELSE <<>>

\* the bindings the SPARQL endpoint can answer with; qid 0: a URI without a QID
SparqlData == { <<>>, <<[qid |-> 0]>>, <<[qid |-> 1]>> }

\* queryWikidataByScientificName: the value the await yields
QueryWikidataByScientificName(out) == IF out.kind = "ok" THEN out.data ELSE <<>>

\* extractQid(sparqlResults[0].item.value); 0 stands for null
ExtractQid(binding) == binding.qid

(***************************************************************************)
(* main's results object                                                   *)
(***************************************************************************)
NoResults ==
    [linked |-> 0, skipped |-> 0, lowConfidence |-> 0, notFound |-> 0, errors |-> 0,
     details |-> <<>>]

Result(slug, status, reason, id, confidence, searched) ==
    [slug |-> slug, status |-> status, reason |-> reason, id |-> id,
     confidence |-> confidence, searched |-> searched]

\* results.details.push(result) and the switch on result.status
Record(res, r) ==
    [res EXCEPT !.details = Append(@, r),
                !.linked = IF r.status = "linked" THEN @ + 1 ELSE @,
                !.skipped = IF r.status = "skipped" THEN @ + 1 ELSE @,
                !.lowConfidence = IF r.status = "low_confidence" THEN @ + 1 ELSE @,
                !.notFound = IF r.status = "not_found" THEN @ + 1 ELSE @,
                !.errors = IF r.status = "error" THEN @ + 1 ELSE @]

\* the rest of main's loop body once processing ended with result r:
\* record it, then sleep unless this was the last file
Return(r) ==
    /\ results' = Record(results, r)
    /\ pc' = IF i < Len(files) THEN "sleep" ELSE "summary"
    /\ runs' = IF i < Len(files) THEN runs ELSE runs + 1

\* catch (error) in main
Throw == Return(Result(i, "error", "", 0, 0, <<>>))

\* a write-back that does not look at the flag
WriteBack_IgnoresDryRun(doc) ==
    /\ files' = [files EXCEPT ![i] = doc]
    /\ writes' = [writes EXCEPT ![i] = @ + 1]

\* if (!DRY_RUN) { add...Link(...); writeFileSync(...) }
WriteBack(doc) ==
    IF dryRun
    THEN UNCHANGED <<files, writes>>
    ELSE /\ files' = [files EXCEPT ![i] = doc]
         /\ writes' = [writes EXCEPT ![i] = @ + 1]

(***************************************************************************)
(* fill-translations.js: texts, language maps, documents                   *)
(*                                                                         *)
(* A text is a sequence of tokens: single glyphs ("yao_T" is a traditional *)
(* glyph with the simplified form "yao_S") and fixed pieces of the script's*)
(* templates. Absent stands for undefined (the key is not in the map).     *)
(***************************************************************************)
Langs == {"en", "zh-Hant", "zh-Hans"}

Absent == <<"undefined">>

\* JavaScript truthiness of a map entry: neither undefined nor ''
Truthy(text) == text # Absent /\ text # <<>>

\* a || b
Or(a, b) == IF Truthy(a) THEN a ELSE b

LangMap(en, hant, hans) ==
    [present |-> TRUE,
     map |-> [l \in Langs |-> IF l = "en" THEN en ELSE IF l = "zh-Hant" THEN hant ELSE hans]]

\* the field is not on the document
NoField == [present |-> FALSE, map |-> [l \in Langs |-> Absent]]

\* data.field?.[lang]
Get(field, lang) == IF field.present THEN field.map[lang] ELSE Absent

\* CHAR_MAP, on the tokens of the model
CharMap(c) ==
    CASE c = "yao_T" -> "yao_S"
      [] c = "an" -> "an"
      [] c = "this_herb_T" -> "this_herb_S"
      [] c = "this_western_herb_T" -> "this_western_herb_S"
      [] c = "to_be_translated_T" -> "to_be_translated_S"
      [] c = "western_blurb_T" -> "western_blurb_S"
      [] c = "sci_T" -> "sci_S"
      [] c = "root_blurb_T" -> "root_blurb_S"
      [] c = "default_blurb_T" -> "default_blurb_S"
      [] c = "vata_desc_T" -> "vata_desc_S"
      [] OTHER -> c

\* tradToSimp
TradToSimp(text) ==
    IF ~Truthy(text) THEN text ELSE [k \in 1..Len(text) |-> CharMap(text[k])]

TcmFields == {"tcmHistory", "tcmTraditionalUsage", "tcmModernResearch", "tcmFunctions",
              "contraindications", "dosage"}
WesternFields == {"westernHistory", "westernTraditionalUsage", "westernModernResearch"}
PlantFields == {"description", "commonName"}
FieldNames == {"name"} \cup PlantFields \cup TcmFields \cup WesternFields

\* AYURVEDA_TERMS[enLabel]; known |-> FALSE stands for undefined
AyurvedaTerm(enLabel) ==
    IF enLabel = <<"Vata">>
    THEN [known |-> TRUE, hant |-> <<"vata_T">>, hans |-> <<"vata_S">>,
          desc |-> <<"vata_desc_T">>]
    ELSE IF enLabel = <<"Guru">>
    THEN [known |-> TRUE, hant |-> <<"guru">>, hans |-> <<"guru">>, desc |-> Absent]
    \* a key the object literal inherits from Object.prototype: the value is a
    \* function, truthy, whose 'zh-Hant', 'zh-Hans' and desc are undefined
    ELSE IF enLabel = <<"constructor">>
    THEN [known |-> TRUE, hant |-> Absent, hans |-> Absent, desc |-> Absent]
    ELSE [known |-> FALSE, hant |-> Absent, hans |-> Absent, desc |-> Absent]

\* detectCategory, for the names of the model
DetectCategory(data) ==
    IF Get(data.fields["name"], "en") = <<"Ginseng">> THEN "root" ELSE "default"

\* DESC_TEMPLATES[category](name, sci)
DescTemplate(category, name, sci) ==
    IF category = "root"
    THEN name \o <<"sci_T", sci, "root_blurb_T">>
    ELSE name \o <<"sci_T", IF sci = "" THEN "pending" ELSE sci, "default_blurb_T">>

\* generateChineseDescription
GenerateChineseDescription(data) ==
    LET nm == data.fields["name"]
        name == Or(Get(nm, "zh-Hant"), Or(Get(nm, "zh-Hans"), Or(Get(nm, "en"), <<"this_plant">>)))
        zhHant == DescTemplate(DetectCategory(data), name, data.sci)
    IN  [hant |-> zhHant, hans |-> TradToSimp(zhHant)]

\* field.replace('tcm', '').replace(/([A-Z])/g, ' $1').trim()
FieldWords(field) ==
    CASE field = "tcmHistory" -> "History"
      [] field = "tcmTraditionalUsage" -> "Traditional Usage"
      [] field = "tcmModernResearch" -> "Modern Research"
      [] field = "tcmFunctions" -> "Functions"
      [] OTHER -> field

\* { data, modified: false, updates: [] }
Unmodified(data) == [data |-> data, modified |-> FALSE, updates |-> <<>>]

\* data[field][lang] = text; modified = true
Put(acc, field, lang, text) ==
    [acc EXCEPT !.data.fields[field].map[lang] = text, !.modified = TRUE]

\* updates.push(...)
Note(acc, field, what) == [acc EXCEPT !.updates = Append(@, [field |-> field, what |-> what])]

Assign(acc, field, lang, text, what) == Note(Put(acc, field, lang, text), field, what)

\* processPlantEntity of fill-translations.js
FillPlantEntity(data) ==
    LET description == data.fields["description"]
        commonName == data.fields["commonName"]
        name == data.fields["name"]
        hasEn == description.present /\ Truthy(Get(description, "en"))
        hasZhHant == Truthy(Get(description, "zh-Hant"))
        hasZhHans == Truthy(Get(description, "zh-Hans"))
        newDesc == GenerateChineseDescription(data)
        a0 == Unmodified(data)
        a1 == IF hasEn /\ ~hasZhHant
              THEN Assign(a0, "description", "zh-Hant", newDesc.hant, "Added zh-Hant")
              ELSE a0
        a2 == IF hasEn /\ ~hasZhHans
              THEN Assign(a1, "description", "zh-Hans", newDesc.hans, "Added zh-Hans")
              ELSE a1
        hasCommonEn == commonName.present /\ Truthy(Get(commonName, "en"))
        a3 == IF hasCommonEn /\ ~Truthy(Get(commonName, "zh-Hant"))
                 /\ Truthy(Get(name, "zh-Hant"))
              THEN Assign(a2, "commonName", "zh-Hant", Get(name, "zh-Hant"),
                          "Added zh-Hant from name")
              ELSE a2
        a4 == IF hasCommonEn /\ ~Truthy(Get(commonName, "zh-Hans"))
                 /\ Truthy(Get(name, "zh-Hans"))
              THEN Assign(a3, "commonName", "zh-Hans", Get(name, "zh-Hans"),
                          "Added zh-Hans from name")
              ELSE a3
    IN  a4

\* what the steps of one addMissingTranslations call have left in data[field]
\* and pushed to updates; modified is set exactly when something is pushed
FieldResult(value, updates) == [value |-> value, updates |-> updates]

\* data[field][lang] = text
SetLang(value, lang, text) == [value EXCEPT !.map[lang] = text]

\* data[field][lang] = text; updates.push(...); modified = true
Filled(acc, lang, text, field, what) ==
    FieldResult(SetLang(acc.value, lang, text),
                Append(acc.updates, [field |-> field, what |-> what]))

\* "If has zh-Hant but missing zh-Hans, convert"
TcmConvertToSimplified(acc, field) ==
    IF Truthy(acc.value.map["zh-Hant"]) /\ ~Truthy(acc.value.map["zh-Hans"])
    THEN Filled(acc, "zh-Hans", TradToSimp(acc.value.map["zh-Hant"]),
                field, "Added zh-Hans (converted from zh-Hant)")
    ELSE acc

\* "If has zh-Hans but missing zh-Hant, use as source"
TcmCopyToTraditional(acc, field) ==
    IF Truthy(acc.value.map["zh-Hans"]) /\ ~Truthy(acc.value.map["zh-Hant"])
    THEN Filled(acc, "zh-Hant", acc.value.map["zh-Hans"], field, "Added zh-Hant")
    ELSE acc

\* the zh-Hant placeholder of processTcmProfile
TcmPlaceholder(name, field) ==
    <<"[[">> \o Or(Get(name, "zh-Hant"), Or(Get(name, "en"), <<"this_herb_T">>))
       \o <<"]]", FieldWords(field), "to_be_translated_T">>

\* "If has en but missing both Chinese, generate placeholder"
TcmChinesePlaceholder(acc, name, field) ==
    IF /\ Truthy(acc.value.map["en"])
       /\ ~Truthy(acc.value.map["zh-Hant"])
       /\ ~Truthy(acc.value.map["zh-Hans"])
    THEN FieldResult(SetLang(SetLang(acc.value, "zh-Hant", TcmPlaceholder(name, field)),
                             "zh-Hans", TradToSimp(TcmPlaceholder(name, field))),
                     Append(acc.updates,
                            [field |-> field,
                             what |-> "Added zh-Hant/zh-Hans (placeholder - needs translation)"]))
    ELSE acc

\* "If has zh-Hant but missing en"
TcmEnglishPlaceholder(acc, name, field) ==
    IF Truthy(acc.value.map["zh-Hant"]) /\ ~Truthy(acc.value.map["en"])
    THEN Filled(acc, "en",
                <<"[", FieldWords(field), "information for">>
                   \o Or(Get(name, "en"), Or(Get(name, "zh-Hant"), <<"This herb">>))
                   \o <<"- translation needed", "]">>,
                field, "Added en (placeholder)")
    ELSE acc

\* processTcmProfile.addMissingTranslations(field), data being the closure's
\* document: the four steps in the order of the code
TcmAddMissingTranslations(data, field) ==
    IF ~data.fields[field].present THEN FieldResult(data.fields[field], <<>>)
    ELSE TcmEnglishPlaceholder(
           TcmChinesePlaceholder(
             TcmCopyToTraditional(
               TcmConvertToSimplified(FieldResult(data.fields[field], <<>>), field),
               field),
             data.fields["name"], field),
           data.fields["name"], field)

\* processTcmProfile: the six calls, each on its own field of data
FillTcmProfile(data) ==
    LET r == [f \in TcmFields |-> TcmAddMissingTranslations(data, f)]
        updates == r["tcmHistory"].updates \o r["tcmTraditionalUsage"].updates
                   \o r["tcmModernResearch"].updates \o r["tcmFunctions"].updates
                   \o r["contraindications"].updates \o r["dosage"].updates
    IN  [data |-> [data EXCEPT !.fields =
                      [f \in FieldNames |-> IF f \in TcmFields THEN r[f].value ELSE @[f]]],
         modified |-> updates # <<>>,
         updates |-> updates]

\* the placeholder of processWesternProfile
WesternPlaceholder(name) ==
    <<"[[">> \o Or(Get(name, "zh-Hant"), Or(Get(name, "en"), <<"this_western_herb_T">>))
       \o <<"]]", "western_blurb_T">>

\* processWesternProfile.addMissingTranslations(field)
WesternAddMissingTranslations(data, field) ==
    IF /\ data.fields[field].present
       /\ Truthy(data.fields[field].map["en"])
       /\ ~Truthy(data.fields[field].map["zh-Hant"])
       /\ ~Truthy(data.fields[field].map["zh-Hans"])
    THEN FieldResult(SetLang(SetLang(data.fields[field], "zh-Hant",
                                     WesternPlaceholder(data.fields["name"])),
                             "zh-Hans", TradToSimp(WesternPlaceholder(data.fields["name"]))),
                     <<[field |-> field, what |-> "Added zh-Hant/zh-Hans"]>>)
    ELSE FieldResult(data.fields[field], <<>>)

\* processWesternProfile: the three calls, each on its own field of data
FillWesternProfile(data) ==
    LET r == [f \in WesternFields |-> WesternAddMissingTranslations(data, f)]
        updates == r["westernHistory"].updates \o r["westernTraditionalUsage"].updates
                   \o r["westernModernResearch"].updates
    IN  [data |-> [data EXCEPT !.fields =
                      [f \in FieldNames |-> IF f \in WesternFields THEN r[f].value ELSE @[f]]],
         modified |-> updates # <<>>,
         updates |-> updates]

\* an item of a reference dataset's @graph
Item(id, prefLabel, description) ==
    [id |-> id, prefLabel |-> prefLabel, description |-> description]

\* item[field][lang] = text; modified = true
PutItem(acc, field, lang, text) ==
    [acc EXCEPT !.item[field].map[lang] = text, !.modified = TRUE]

\* the body of processAyurvedaReference's loop over data['@graph']
FillAyurvedaItem(item) ==
    LET p0 == [item |-> item, modified |-> FALSE, updates |-> <<>>]
        enLabel == Get(item.prefLabel, "en")
        label == AyurvedaTerm(enLabel)
        t1 == IF ~Truthy(Get(item.prefLabel, "zh-Hant"))
              THEN Note(PutItem(p0, "prefLabel", "zh-Hant", label.hant),
                        "prefLabel", "Added zh-Hant")
              ELSE p0
        t2 == IF ~Truthy(Get(item.prefLabel, "zh-Hans"))
              THEN Note(PutItem(t1, "prefLabel", "zh-Hans", label.hans),
                        "prefLabel", "Added zh-Hans")
              ELSE t1
        p1 == IF ~item.prefLabel.present THEN p0
              ELSE IF label.known THEN t2
              ELSE IF Truthy(enLabel) /\ ~Truthy(Get(item.prefLabel, "zh-Hant"))
              THEN Note(PutItem(PutItem(p0, "prefLabel", "zh-Hant", enLabel),
                                "prefLabel", "zh-Hans", enLabel),
                        "prefLabel", "Added zh (fallback)")
              ELSE p0
        tdesc == AyurvedaTerm(Get(p1.item.prefLabel, "en"))
        p2 == IF /\ item.description.present
                 /\ Truthy(Get(item.description, "en"))
                 /\ ~Truthy(Get(item.description, "zh-Hant"))
                 /\ tdesc.known /\ Truthy(tdesc.desc)
              THEN Note(PutItem(PutItem(p1, "description", "zh-Hant", tdesc.desc),
                                "description", "zh-Hans", TradToSimp(tdesc.desc)),
                        "description", "Added zh")
              ELSE p1
    IN  p2

\* processAyurvedaReference
FillAyurvedaReference(data) ==
    LET done == [k \in 1..Len(data.graph) |-> FillAyurvedaItem(data.graph[k])]
        Updates[k \in 0..Len(data.graph)] ==
            IF k = 0 THEN <<>> ELSE Updates[k-1] \o done[k].updates
    IN  [data |-> [data EXCEPT !.graph = [k \in 1..Len(data.graph) |-> done[k].item]],
         modified |-> \E k \in 1..Len(data.graph) : done[k].modified,
         updates |-> Updates[Len(data.graph)]]

\* processFile up to the write: the result for a parsed document
FillDocument(data) ==
    CASE data.kind = "plant" -> FillPlantEntity(data)
      [] data.kind = "tcm" -> FillTcmProfile(data)
      [] data.kind = "western" -> FillWesternProfile(data)
      [] data.kind = "ayurveda" -> FillAyurvedaReference(data)
      [] OTHER -> Unmodified(data)


(***************************************************************************)
(* fill-translations.js: the corpus, processFile and main                  *)
(***************************************************************************)
NoFields == [f \in FieldNames |-> NoField]

\* a parsed .jsonld file; kind is what processFile derives from its path
FillDoc(kind, sci, fields, graph) ==
    [ok |-> TRUE, kind |-> kind, sci |-> sci, fields |-> fields, graph |-> graph]

\* a file JSON.parse rejects
Unparsable == [ok |-> FALSE, kind |-> "plant", sci |-> "", fields |-> NoFields, graph |-> <<>>]

Hant == <<"ren", "yao_T">>
Hans == <<"ren", "yao_S">>
OtherHans == <<"an", "ren">>
En == <<"Ginseng">>
En2 == <<"Licorice">>

With(fields, name, map) == [fields EXCEPT ![name] = map]

\* the documents a corpus is drawn from
FillDocs ==
    { Unparsable,
      FillDoc("schema", "", With(NoFields, "description", LangMap(En, Absent, Absent)), <<>>),
      \* plant entities
      FillDoc("plant", "Panax ginseng",
              With(With(With(NoFields, "name", LangMap(En, Hant, Hans)),
                        "description", LangMap(En, Absent, Absent)),
                   "commonName", LangMap(En, Absent, <<>>)), <<>>),
      FillDoc("plant", "",
              With(With(NoFields, "name", LangMap(En2, Absent, Absent)),
                   "description", LangMap(En2, Hant, Absent)), <<>>),
      FillDoc("plant", "Panax ginseng",
              With(With(With(NoFields, "name", LangMap(Absent, Hant, Absent)),
                        "description", LangMap(En, <<>>, OtherHans)),
                   "commonName", LangMap(En, Absent, OtherHans)), <<>>),
      FillDoc("plant", "Panax ginseng",
              With(With(NoFields, "name", LangMap(En, Hant, Hans)),
                   "description", LangMap(En, Hant, Hans)), <<>>),
      \* TCM profiles
      FillDoc("tcm", "",
              With(With(With(NoFields, "name", LangMap(En, Hant, Hans)),
                        "tcmHistory", LangMap(En, Absent, Absent)),
                   "tcmFunctions", LangMap(Absent, Hant, Absent)), <<>>),
      FillDoc("tcm", "",
              With(With(With(NoFields, "name", LangMap(En, Absent, Absent)),
                        "dosage", LangMap(Absent, Absent, OtherHans)),
                   "tcmTraditionalUsage", LangMap(En, <<>>, Hans)), <<>>),
      FillDoc("tcm", "",
              With(With(With(NoFields, "tcmModernResearch", LangMap(En2, Absent, Absent)),
                        "contraindications", LangMap(Absent, Absent, Absent)),
                   "tcmFunctions", LangMap(En, Hant, Hans)), <<>>),
      \* Western profiles
      FillDoc("western", "",
              With(With(With(NoFields, "name", LangMap(En, Hant, Absent)),
                        "westernHistory", LangMap(En, Absent, Absent)),
                   "westernModernResearch", LangMap(Absent, Hant, Absent)), <<>>),
      FillDoc("western", "",
              With(With(NoFields, "westernTraditionalUsage", LangMap(En, Absent, Hans)),
                   "westernHistory", LangMap(En2, <<>>, <<>>)), <<>>),
      \* Ayurveda reference datasets
      FillDoc("ayurveda", "", NoFields,
              << Item(1, LangMap(<<"Vata">>, Absent, Absent), LangMap(En, Absent, Absent)),
                 Item(2, LangMap(<<"Guru">>, <<"guru">>, Absent), LangMap(En, Absent, Absent)) >>),
      FillDoc("ayurveda", "", NoFields,
              << Item(1, LangMap(<<"Ojas">>, Absent, Absent), NoField),
                 Item(2, NoField, LangMap(En, Absent, Absent)) >>),
      FillDoc("ayurveda", "", NoFields,
              << Item(1, LangMap(<<"Ojas">>, Absent, OtherHans), NoField) >>),
      FillDoc("ayurveda", "", NoFields,
              << Item(1, LangMap(<<"Vata">>, <<"vata_T">>, <<"vata_S">>),
                      LangMap(En, Absent, OtherHans)) >>),
      FillDoc("ayurveda", "", NoFields,
              << Item(1, LangMap(<<"constructor">>, Absent, Absent), NoField) >>),
      FillDoc("ayurveda", "", NoFields, <<>>) }

\* processFile: the value it returns for the file's content
ProcessFile(doc) ==
    IF ~doc.ok
    THEN [error |-> TRUE, data |-> doc, modified |-> FALSE, updates |-> <<>>]
    ELSE FillDocument(doc) @@ [error |-> FALSE]

NoCounts ==
    [modifiedCount |-> 0, errorCount |-> 0,
     stats |-> [k \in {"plant", "tcm", "western", "ayurveda"} |-> 0]]

NoLast == [error |-> FALSE, data |-> Unparsable, modified |-> FALSE, updates |-> <<>>]

\* one iteration of main's loop: processFile(file), then the counting
FillFile ==
    /\ fPc = "loop"
    /\ \E result \in {ProcessFile(fFiles[fI])} :
          /\ fLast' = result
          /\ IF result.modified /\ ~fDryRun
             THEN /\ fFiles' = [fFiles EXCEPT ![fI] = result.data]
                  /\ fWrites' = [fWrites EXCEPT ![fI] = @ + 1]
             ELSE UNCHANGED <<fFiles, fWrites>>
          /\ fCounts' =
                IF result.error THEN [fCounts EXCEPT !.errorCount = @ + 1]
                ELSE IF result.modified
                THEN [fCounts EXCEPT !.modifiedCount = @ + 1,
                                     !.stats[fFiles[fI].kind] = @ + 1]
                ELSE fCounts
    /\ IF fI < Len(fFiles)
       THEN fI' = fI + 1 /\ UNCHANGED <<fPc, fRuns>>
       ELSE fPc' = "summary" /\ fRuns' = fRuns + 1 /\ UNCHANGED fI
    /\ UNCHANGED <<fDryRun, fOrig, linkVars, batchVars>>

\* the script is started again on the corpus as the last run left it
FillRerun ==
    /\ fPc = "summary" /\ fRuns < MaxRuns
    /\ fPc' = "loop"
    /\ fI' = 1
    /\ fCounts' = NoCounts
    /\ fLast' = NoLast
    /\ UNCHANGED <<fDryRun, fFiles, fOrig, fWrites, fRuns, linkVars, batchVars>>

\* no synchronous batch script is running
BatchIdle ==
    /\ bScript = "none"
    /\ bDryRun = FALSE
    /\ bFiles = <<>>
    /\ bOrig = <<>>
    /\ bI = 1
    /\ bPc = "idle"
    /\ bDetails = <<>>
    /\ bSummary = <<>>
    /\ bExit = -1
    /\ bWrites = <<>>
    /\ bRuns = 0

\* the filler is not running
FillIdle ==
    /\ fDryRun = FALSE
    /\ fFiles = <<>>
    /\ fOrig = <<>>
    /\ fI = 1
    /\ fPc = "idle"
    /\ fLast = NoLast
    /\ fCounts = NoCounts
    /\ fWrites = <<>>
    /\ fRuns = 0

\* the linkers are not running
LinkIdle ==
    /\ script = "none"
    /\ dryRun = FALSE
    /\ serviceUp = FALSE
    /\ files = <<>>
    /\ i = 1
    /\ pc = "idle"
    /\ entity = Malformed
    /\ term = 0
    /\ inflight = 0
    /\ calls = <<>>
    /\ delayed = FALSE
    /\ everCalled = FALSE
    /\ results = NoResults
    /\ writes = <<>>
    /\ runs = 0

InitFill ==
    /\ LinkIdle
    /\ BatchIdle
    /\ fDryRun \in BOOLEAN
    /\ \E n \in 1..MaxFillFiles : fFiles \in [1..n -> FillDocs]
    /\ fOrig = fFiles
    /\ fI = 1
    /\ fPc = "loop"
    /\ fLast = NoLast
    /\ fCounts = NoCounts
    /\ fWrites = [k \in 1..Len(fFiles) |-> 0]
    /\ fRuns = 0

NextFill ==
    \/ FillFile
    \/ FillRerun

SpecFill == InitFill /\ [][NextFill]_vars

(***************************************************************************)
(* link-gbif.js: processPlantEntity inside main's loop                     *)
(***************************************************************************)
\* the pending call of the current document is answered with m
Answered(m) == [calls EXCEPT ![Len(calls)] = [@ EXCEPT !.settled = TRUE, !.match = m]]

Linked(m) == Result(i, "linked", "", m.speciesKey, m.confidence, <<>>)

\* from the top of the loop body to the first await (or to the result)
GbifProcess ==
    /\ UNCHANGED <<fillVars, batchVars>>
    /\ script = "gbif" /\ pc = "loop"
    /\ UNCHANGED <<script, dryRun, serviceUp, i, term, files, writes>>
    /\ LET f == files[i] IN
       IF ~f.ok
       THEN /\ Throw
            /\ calls' = <<>>
            /\ UNCHANGED <<entity, inflight, delayed, everCalled>>
       ELSE IF HasGbifLink(f)
       THEN /\ Return(Result(i, "skipped", "already_linked", 0, 0, <<>>))
            /\ entity' = f /\ calls' = <<>>
            /\ UNCHANGED <<inflight, delayed, everCalled>>
       ELSE IF f.sci = NoName
       THEN /\ Return(Result(i, "skipped", "no_scientific_name", 0, 0, <<>>))
            /\ entity' = f /\ calls' = <<>>
            /\ UNCHANGED <<inflight, delayed, everCalled>>
       ELSE /\ entity' = f
            /\ calls' = <<[name |-> GbifCleanName(f.sci), settled |-> FALSE, match |-> Null]>>
            /\ inflight' = inflight + 1
            /\ delayed' = FALSE
            /\ everCalled' = TRUE
            /\ pc' = "fetch1"
            /\ UNCHANGED <<results, runs>>

\* the first fetch settles; the function runs on to the retry or to its result
GbifMatched ==
    /\ UNCHANGED <<fillVars, batchVars>>
    /\ script = "gbif" /\ pc = "fetch1"
    /\ UNCHANGED <<script, dryRun, serviceUp, i, term, entity>>
    /\ \E out \in FetchOutcomes(MatchData) :
         LET match == MatchGbifSpecies(out)
             cleanName == GbifCleanName(entity.sci)
         IN
         IF match.matchType = "THROWN"
         THEN /\ Throw
              /\ inflight' = Settled(inflight, out)
              /\ calls' = Answered(match)
              /\ UNCHANGED <<delayed, everCalled, files, writes>>
         ELSE IF Usable(match)
         THEN /\ inflight' = Settled(inflight, out)
              /\ calls' = Answered(match)
              /\ UNCHANGED <<delayed, everCalled>>
              /\ IF Accepts(match)
                 THEN /\ WriteBack(AddGbifLink(entity, match.speciesKey))
                      /\ Return(Linked(match))
                 ELSE /\ Return(Result(i, "low_confidence", "", 0, match.confidence, <<>>))
                      /\ UNCHANGED <<files, writes>>
         ELSE IF cleanName # entity.sci
         THEN /\ calls' = Append(Answered(match),
                                 [name |-> entity.sci, settled |-> FALSE, match |-> Null])
              /\ inflight' = Settled(inflight, out) + 1
              /\ delayed' = FALSE
              /\ everCalled' = TRUE
              /\ pc' = "fetch2"
              /\ UNCHANGED <<results, runs, files, writes>>
         ELSE /\ inflight' = Settled(inflight, out)
              /\ calls' = Answered(match)
              /\ Return(Result(i, "not_found", "", 0, 0, <<cleanName, entity.sci>>))
              /\ UNCHANGED <<delayed, everCalled, files, writes>>

\* the retry with the original name settles
GbifRetried ==
    /\ UNCHANGED <<fillVars, batchVars>>
    /\ script = "gbif" /\ pc = "fetch2"
    /\ UNCHANGED <<script, dryRun, serviceUp, i, term, entity, delayed, everCalled>>
    /\ \E out \in FetchOutcomes(MatchData) :
         LET match2 == MatchGbifSpecies(out)
             cleanName == GbifCleanName(entity.sci)
         IN
         /\ inflight' = Settled(inflight, out)
         /\ calls' = Answered(match2)
         /\ IF match2.matchType = "THROWN"
            THEN Throw /\ UNCHANGED <<files, writes>>
            ELSE IF Accepts(match2)
            THEN /\ WriteBack(AddGbifLink(entity, match2.speciesKey))
                 /\ Return(Linked(match2))
            ELSE /\ Return(Result(i, "not_found", "", 0, 0, <<cleanName, entity.sci>>))
                 /\ UNCHANGED <<files, writes>>

(***************************************************************************)
(* link-wikidata.js: processHerbProfile inside main's loop                 *)
(***************************************************************************)
WikiLinked(qid, method) == Result(i, "linked", method, qid, 0, <<>>)

\* from the top of the loop body to the first REST search (or to the result)
WikiProcess ==
    /\ UNCHANGED <<fillVars, batchVars>>
    /\ script = "wikidata" /\ pc = "loop"
    /\ UNCHANGED <<script, dryRun, serviceUp, i, files, writes>>
    /\ LET profile == files[i] IN
       IF ~profile.ok
       THEN /\ Throw
            /\ calls' = <<>>
            /\ UNCHANGED <<entity, term, inflight, delayed, everCalled>>
       ELSE /\ entity' = profile
            /\ IF HasWikidataLink(profile)
               THEN /\ Return(Result(i, "skipped", "already_linked", 0, 0, <<>>))
                    /\ calls' = <<>>
                    /\ UNCHANGED <<term, inflight, delayed, everCalled>>
               ELSE IF profile.ref = ""
               THEN /\ Return(Result(i, "skipped", "no_plant_ref", 0, 0, <<>>))
                    /\ calls' = <<>>
                    /\ UNCHANGED <<term, inflight, delayed, everCalled>>
               ELSE IF profile.ref \notin PlantMapKeys
               THEN /\ Return(Result(i, "skipped", "plant_not_found", 0, 0, <<>>))
                    /\ calls' = <<>>
                    /\ UNCHANGED <<term, inflight, delayed, everCalled>>
               ELSE IF PlantMap(profile.ref).scientificName = NoName
               THEN /\ Return(Result(i, "skipped", "no_scientific_name", 0, 0, <<>>))
                    /\ calls' = <<>>
                    /\ UNCHANGED <<term, inflight, delayed, everCalled>>
               ELSE /\ term' = 1
                    /\ calls' = <<[name |-> SearchTerms(profile)[1], settled |-> FALSE,
                                   match |-> Null]>>
                    /\ inflight' = inflight + 1
                    /\ delayed' = FALSE
                    /\ everCalled' = TRUE
                    /\ pc' = "rest"
                    /\ UNCHANGED <<results, runs>>

\* a REST search settles: link on the first plant-like result, else sleep(50)
WikiSearched ==
    /\ UNCHANGED <<fillVars, batchVars>>
    /\ script = "wikidata" /\ pc = "rest"
    /\ UNCHANGED <<script, dryRun, serviceUp, i, term, entity, delayed, everCalled>>
    /\ \E out \in FetchOutcomes(RestData) :
         LET restResults == SearchWikidataByLabel(out)
             hit == FirstPlantLike(restResults)
         IN
         /\ inflight' = Settled(inflight, out)
         /\ calls' = Answered(IF hit = 0 THEN Null
                              ELSE Match("rest_api", restResults[hit].id, 0))
         /\ IF hit # 0
            THEN /\ WriteBack(AddWikidataLink(entity, restResults[hit].id))
                 /\ Return(WikiLinked(restResults[hit].id, "rest_api"))
            ELSE /\ pc' = "sleep50"
                 /\ UNCHANGED <<results, runs, files, writes>>

\* sleep(50) is over: the next term's search, or the SPARQL fallback
WikiSearchSlept ==
    /\ UNCHANGED <<fillVars, batchVars>>
    /\ script = "wikidata" /\ pc = "sleep50"
    /\ UNCHANGED <<script, dryRun, serviceUp, i, entity, files, writes, results, runs>>
    /\ inflight' = inflight + 1
    /\ delayed' = FALSE
    /\ everCalled' = TRUE
    /\ IF term < Len(SearchTerms(entity))
       THEN /\ term' = term + 1
            /\ calls' = Append(calls, [name |-> SearchTerms(entity)[term + 1],
                                       settled |-> FALSE, match |-> Null])
            /\ pc' = "rest"
       ELSE /\ term' = term
            /\ calls' = Append(calls,
                    [name |-> WikidataCleanName(PlantMap(entity.ref).scientificName),
                     settled |-> FALSE, match |-> Null])
            /\ pc' = "sparql"

\* the SPARQL query settles
WikiQueried ==
    /\ UNCHANGED <<fillVars, batchVars>>
    /\ script = "wikidata" /\ pc = "sparql"
    /\ UNCHANGED <<script, dryRun, serviceUp, i, term, entity, delayed, everCalled>>
    /\ \E out \in FetchOutcomes(SparqlData) :
         LET sparqlResults == QueryWikidataByScientificName(out)
             qid == IF Len(sparqlResults) > 0 THEN ExtractQid(sparqlResults[1]) ELSE 0
         IN
         /\ inflight' = Settled(inflight, out)
         /\ calls' = Answered(IF qid = 0 THEN Null ELSE Match("sparql", qid, 0))
         /\ IF qid # 0
            THEN /\ WriteBack(AddWikidataLink(entity, qid))
                 /\ Return(WikiLinked(qid, "sparql"))
            ELSE /\ Return(Result(i, "not_found", "", 0, 0, SearchTerms(entity)))
                 /\ UNCHANGED <<files, writes>>

\* await sleep(DELAY_MS) at the end of the loop body, then i++
SleepDone ==
    /\ UNCHANGED <<fillVars, batchVars>>
    /\ pc = "sleep"
    /\ pc' = "loop"
    /\ i' = i + 1
    /\ delayed' = TRUE
    /\ UNCHANGED <<script, dryRun, serviceUp, files, entity, term, inflight, calls,
                   everCalled, results, writes, runs>>

\* the script is started again on the corpus as the last run left it
Rerun ==
    /\ UNCHANGED <<fillVars, batchVars>>
    /\ pc = "summary" /\ runs < MaxRuns
    /\ pc' = "loop"
    /\ i' = 1
    /\ results' = NoResults
    /\ calls' = <<>>
    /\ delayed' = FALSE
    /\ everCalled' = FALSE
    /\ term' = 0
    /\ UNCHANGED <<script, dryRun, serviceUp, files, entity, inflight, writes, runs>>

InitLink ==
    /\ FillIdle
    /\ BatchIdle
    /\ script \in {"gbif", "wikidata"}
    /\ dryRun \in BOOLEAN
    /\ serviceUp \in BOOLEAN
    /\ \E n \in 1..MaxFiles :
          files \in [1..n -> IF script = "gbif" THEN PlantDocs ELSE ProfileDocs]
    /\ i = 1
    /\ pc = "loop"
    /\ entity = Malformed
    /\ term = 0
    /\ inflight = 0
    /\ calls = <<>>
    /\ delayed = FALSE
    /\ everCalled = FALSE
    /\ results = NoResults
    /\ writes = [k \in 1..Len(files) |-> 0]
    /\ runs = 0

NextLink ==
    \/ GbifProcess
    \/ GbifMatched
    \/ GbifRetried
    \/ WikiProcess
    \/ WikiSearched
    \/ WikiSearchSlept
    \/ WikiQueried
    \/ SleepDone
    \/ Rerun

SpecLink == InitLink /\ [][NextLink]_vars

(***************************************************************************)
(* Properties of the linkers                                               *)
(***************************************************************************)
LastResult == results.details[Len(results.details)]

\* processing of files[i] has just ended and its result is recorded
Processed ==
    /\ pc \in {"sleep", "summary"}
    /\ Len(results.details) > 0
    /\ LastResult.slug = i

TargetHost == IF script = "gbif" THEN GbifHost ELSE WikidataHost

\* doc parses and its sameAs holds a link (string or object) to the target service
AlreadyLinked(doc) ==
    /\ doc.ok
    /\ \E k \in 1..Len(doc.sameAs.items) : doc.sameAs.items[k].url.host = TargetHost

\* number of sameAs entries of doc whose URL is url
Occurrences(doc, url) ==
    Cardinality({k \in 1..Len(doc.sameAs.items) : doc.sameAs.items[k].url = url})

CitationAtoms == {"(", "L.", "DC.", "Thunb.", "Hort"}

C2_ThresholdEveryCandidate ==
    (script = "gbif" /\ Processed /\ calls # <<>>) =>
       LET last == calls[Len(calls)].match IN
       /\ LastResult.status = "linked" =>
             (last.matchType # "" /\ last.confidence >= MinConfidence)
       /\ (Usable(last) /\ last.confidence = MinConfidence) => LastResult.status = "linked"
       /\ \A k \in 1..Len(calls) :
             (Usable(calls[k].match) /\ calls[k].match.confidence = MinConfidence - 1)
                => LastResult.status = "low_confidence"

\* C3 (as claimed): after a below-threshold match for the cleaned name the raw
\* name, when it differs, is tried before the result is produced.
C3_LowConfidenceTriesNext ==
    (script = "gbif" /\ Processed /\ calls # <<>>
       /\ Usable(calls[1].match) /\ calls[1].match.confidence < MinConfidence
       /\ calls[1].name # entity.sci)
      => (Len(calls) = 2 /\ calls[2].name = entity.sci)

\* C3 (amended): the cleaned name (no citation atom) is submitted first; the raw
\* name is submitted second, and only when it differs and the first answer was
\* no usable match; a usable below-threshold answer for the cleaned name ends
\* the document as low_confidence after that single call.
C3_CandidateOrder ==
    (script = "gbif" /\ Processed /\ calls # <<>>) =>
       /\ Len(calls) <= 2
       /\ \A k \in 1..Len(calls[1].name) : calls[1].name[k] \notin CitationAtoms
       /\ \A k \in 1..Len(calls[1].name) : calls[1].name[k] = entity.sci[k]
       /\ Len(calls) = 2 <=> (~Usable(calls[1].match) /\ calls[1].name # entity.sci)
       /\ Len(calls) = 2 => calls[2].name = entity.sci
       /\ (Usable(calls[1].match) /\ calls[1].match.confidence < MinConfidence)
             => (Len(calls) = 1 /\ LastResult.status = "low_confidence")

C3_Witness ==
    /\ script = "gbif" /\ Processed
    /\ Len(calls) = 1
    /\ calls[1].name # entity.sci
    /\ Usable(calls[1].match) /\ calls[1].match.confidence < MinConfidence
    /\ LastResult.status = "low_confidence"

\* C4: no sameAs list ever holds the same URL twice; a document just linked
\* holds the constructed URL exactly once, in object form, and (GBIF) the
\* species key as gbifId; addGbifLink/addWikidataLink themselves add no second
\* entry for a URL that is already there.
C4_NoDuplicateLink ==
    /\ \A f \in 1..Len(files) : \A k \in 1..Len(files[f].sameAs.items) :
          Occurrences(files[f], files[f].sameAs.items[k].url) = 1
    /\ (Processed /\ LastResult.status = "linked" /\ ~dryRun) =>
          LET url == [host |-> TargetHost, id |-> LastResult.id] IN
          /\ Occurrences(files[i], url) = 1
          /\ \E k \in 1..Len(files[i].sameAs.items) : files[i].sameAs.items[k] = ObjLink(url)
          /\ script = "gbif" => files[i].gbifId = LastResult.id
    /\ \A d \in PlantDocs \cup ProfileDocs : \A id \in 1..2 :
          /\ Occurrences(AddGbifLink(d, id), GbifUrl(id)) = 1
          /\ Occurrences(AddWikidataLink(d, id), WikidataUrl(id)) = 1
          /\ AddGbifLink(d, id).gbifId = id

C4_Witness ==
    /\ Processed /\ LastResult.status = "linked" /\ ~dryRun
    /\ runs = MaxRuns
    /\ Occurrences(files[i], [host |-> TargetHost, id |-> LastResult.id]) = 1
    /\ Len(files[i].sameAs.items) > 1

\* C5: with the service unreachable no failure is raised (no error result for
\* a file that parses), nothing is written, every call's answer is "no match",
\* before the summary the script always has a next step (a pending fetch always
\* settles, as a failure), and the summary is reached with one result per file.
C5_UnreachableServiceTolerated ==
    ~serviceUp =>
       /\ \A f \in 1..Len(files) : writes[f] = 0
       /\ \A k \in 1..Len(results.details) :
             /\ results.details[k].status # "linked"
             /\ results.details[k].status = "error" => ~files[results.details[k].slug].ok
       /\ \A k \in 1..Len(calls) : calls[k].match = Null
       /\ pc = "summary" => Len(results.details) = Len(files)
       /\ pc # "summary" =>
             \/ pc \in {"loop", "sleep", "sleep50"}
             \/ /\ pc \in {"fetch1", "fetch2", "rest", "sparql"}
                /\ inflight = 1
                /\ FetchOutcomes(MatchData \cup RestData \cup SparqlData) # {}

C5_Witness ==
    /\ ~serviceUp /\ pc = "summary"
    /\ Len(files) > 1
    /\ results.notFound > 0
    /\ Len(calls) > 1 /\ calls[1].settled

\* C6 (as claimed): whenever an external call is issued and an earlier call was
\* issued in the same run, a sleep has completed in between.
C6_DelayBetweenCalls ==
    [][(calls' # calls /\ Len(calls') > 0 /\ ~calls'[Len(calls')].settled /\ everCalled)
          => delayed]_vars

\* C7: at most one request is outstanding, exactly while the script awaits a
\* fetch, and every call but the pending one has settled.
C7_OneRequestAtATime ==
    /\ inflight \in {0, 1}
    /\ inflight = 1 <=> pc \in {"fetch1", "fetch2", "rest", "sparql"}
    /\ \A k \in 1..Len(calls) : ~calls[k].settled => (k = Len(calls) /\ inflight = 1)

C7_Witness ==
    /\ inflight = 1
    /\ Len(calls) > 1
    /\ calls[1].settled /\ ~calls[Len(calls)].settled

(***************************************************************************)
(* Properties of the translation filler                                    *)
(***************************************************************************)
\* the language maps of a document: <<0, f>> is its field f, <<k, n>> is
\* prefLabel or description of the k-th item of its @graph
Slots(doc) ==
    {<<0, f>> : f \in FieldNames}
       \cup {<<k, n>> : k \in 1..Len(doc.graph), n \in {"prefLabel", "description"}}

MapAt(doc, slot) == IF slot[1] = 0 THEN doc.fields[slot[2]] ELSE doc.graph[slot[1]][slot[2]]

\* the text opens with the bracket of the script's placeholders
Marked(text) == Len(text) > 0 /\ text[1] \in {"[[", "["}

\* C8 (as claimed): in every file of the corpus, whatever its type, every
\* language map and every key present before the filler ran is still present,
\* and every value that was non-empty before is unchanged.
C8_NothingLostOrOverwritten ==
    \A k \in 1..Len(fFiles) : \A s \in Slots(fOrig[k]) : \A l \in Langs :
       /\ MapAt(fOrig[k], s).present => MapAt(fFiles[k], s).present
       /\ Get(MapAt(fOrig[k], s), l) # Absent => Get(MapAt(fFiles[k], s), l) # Absent
       /\ Truthy(Get(MapAt(fOrig[k], s), l))
             => Get(MapAt(fFiles[k], s), l) = Get(MapAt(fOrig[k], s), l)

\* C9 (as claimed): once a run has filled the corpus, filling any of its files
\* again yields the same document and reports no modification, so a second run
\* reports none and no file is written a second time.
C9_SecondPassChangesNothing ==
    (~fDryRun /\ fRuns >= 1) =>
       /\ \A k \in 1..Len(fFiles) :
             /\ ProcessFile(fFiles[k]).data = fFiles[k]
             /\ ~ProcessFile(fFiles[k]).modified
             /\ fWrites[k] <= 1
       /\ (fPc = "loop" \/ fRuns >= 2) => ~fLast.modified

\* C10 (as claimed): every value the filler has put into a file is marked,
\* unless it is the character substitution of the traditional text that was in
\* the same map, a copy of the simplified text that was in the same map, or a
\* common name copied from the document's name.
C10_SynthesizedValuesMarked ==
    \A k \in 1..Len(fFiles) : \A s \in Slots(fOrig[k]) : \A l \in Langs :
       (/\ Get(MapAt(fFiles[k], s), l) # Get(MapAt(fOrig[k], s), l)
        /\ Truthy(Get(MapAt(fFiles[k], s), l)))
          => \/ Marked(Get(MapAt(fFiles[k], s), l))
             \/ /\ l = "zh-Hans"
                /\ Truthy(Get(MapAt(fOrig[k], s), "zh-Hant"))
                /\ Get(MapAt(fFiles[k], s), l) = TradToSimp(Get(MapAt(fOrig[k], s), "zh-Hant"))
             \/ /\ l = "zh-Hant"
                /\ Get(MapAt(fFiles[k], s), l) = Get(MapAt(fOrig[k], s), "zh-Hans")
             \/ /\ s = <<0, "commonName">>
                /\ Get(MapAt(fFiles[k], s), l) = Get(fOrig[k].fields["name"], l)

\* the filler has run over the whole corpus and written its results
Filled1 == ~fDryRun /\ fRuns >= 1

\* C11 (as claimed): in every processed document, every language map whose
\* zh-Hant was present and whose zh-Hans was absent now has zh-Hans equal to the
\* character substitution of that zh-Hant, and every map whose zh-Hans was
\* present and whose zh-Hant was absent now has zh-Hant equal to that zh-Hans.
C11_ChineseVariantsDerived ==
    Filled1 =>
       \A k \in 1..Len(fFiles) : \A s \in Slots(fOrig[k]) :
          (fOrig[k].ok /\ fOrig[k].kind \in {"plant", "tcm", "western", "ayurveda"}
             /\ MapAt(fOrig[k], s).present) =>
             /\ (Truthy(Get(MapAt(fOrig[k], s), "zh-Hant"))
                   /\ Get(MapAt(fOrig[k], s), "zh-Hans") = Absent)
                  => Get(MapAt(fFiles[k], s), "zh-Hans")
                        = TradToSimp(Get(MapAt(fOrig[k], s), "zh-Hant"))
             /\ (Truthy(Get(MapAt(fOrig[k], s), "zh-Hans"))
                   /\ Get(MapAt(fOrig[k], s), "zh-Hant") = Absent)
                  => Get(MapAt(fFiles[k], s), "zh-Hant") = Get(MapAt(fOrig[k], s), "zh-Hans")

(***************************************************************************)
(* The validators: validate.js (SimpleValidator, structural) and           *)
(* validate-data.js (language coverage).                                   *)
(*                                                                         *)
(* A parsed document is a record: path (the directory class of the file),  *)
(* id (the '@id' string, "" when missing), keys (the truthy top-level keys *)
(* that are not language maps), typeArray / types (the '@type' value),     *)
(* maps (the value of each multilingual field), plain (languages whose     *)
(* long text holds no medical term) and graph (the '@graph' items, or      *)
(* Absent).                                                                *)
(***************************************************************************)

\* sequence holding e when c holds, else empty: one conditional push
PushIf(c, e) == IF c THEN <<e>> ELSE <<>>

\* concatenation of a sequence of sequences
RECURSIVE Flatten(_)
Flatten(ss) == IF ss = <<>> THEN <<>> ELSE Head(ss) \o Flatten(Tail(ss))

\* validate-data.js: REQUIRED_LANGUAGES
REQUIRED_LANGUAGES == <<"en", "zh-Hant", "zh-Hans">>

\* the fields whose value is a language map
ValMapFields ==
    {"name", "description", "commonName",
     "tcmHistory", "tcmTraditionalUsage", "tcmModernResearch", "tcmFunctions",
     "contraindications", "dosage",
     "westernHistory", "westernTraditionalUsage", "westernModernResearch"}

\* a multilingual value: missing, a plain string, or an object keyed by language
NoMap == [kind |-> "absent", langs |-> {}]
StringValue == [kind |-> "string", langs |-> {}]
MapOf(langs) == [kind |-> "map", langs |-> langs]
NoMaps == [f \in ValMapFields |-> NoMap]

\* data[key] is truthy
VHas(data, key) ==
    IF key \in ValMapFields THEN data.maps[key].kind # "absent" ELSE key \in data.keys

\* data[prefixed] || data[key] is truthy
VEither(data, prefixed, key) == VHas(data, prefixed) \/ VHas(data, key)

\* one reported error or warning
Problem(kind, field) == [kind |-> kind, field |-> field, lang |-> ""]
LangProblem(kind, field, lang) == [kind |-> kind, field |-> field, lang |-> lang]

\* validate.js validatePlant: ids holding a non-plant slug, 'vitamin-' or 'omega'
IsPlant(id) == id \notin {"plant/zinc", "plant/vitamin-c", "plant/omega-3"}

\* validate.js SimpleValidator.validateLanguageMap: the keys the pattern
\* /^[a-z]{2}(-[A-Z]{2})?$/ accepts among en, zh-Hant, zh-Hans, hi and sa; the script
\* subtag of zh-Hant and zh-Hans has four letters, three of them lower-case
ValidLanguageCodes == {"en", "hi", "sa"}
SimpleValidateLanguageMap(value, propName) ==
    IF value.kind = "absent" THEN <<>>
    ELSE IF value.kind = "string" THEN <<Problem("not-a-map", propName)>>
    ELSE PushIf(value.langs \cap ValidLanguageCodes = {}, Problem("language-codes", propName))

\* validate.js validateIri / validateIriArray: every branch returns without a push
ValidateIri(propName) == <<>>

\* validate.js validatePlant: the system-scoped properties it looks for
systemScopedProps ==
    <<"herbapedia:traditionalUsage", "traditionalUsage",
      "herbapedia:modernResearch", "modernResearch",
      "herbapedia:functions", "functions",
      "tcm:traditionalUsage", "ayurveda:traditionalUsage", "western:traditionalUsage">>

\* the errors pushed by the loop over a list of properties, in list order
ScopeErrors(data, props) ==
    Flatten([k \in 1..Len(props) |-> PushIf(VHas(data, props[k]), Problem("scope", props[k]))])

\* validate.js SimpleValidator.validatePlant
validatePlant(data) ==
    [errors |->
        PushIf(data.id = "", Problem("missing", "@id"))
        \o PushIf(~VHas(data, "@type"), Problem("missing", "@type"))
        \o PushIf(IsPlant(data.id) /\ ~VEither(data, "dwc:scientificName", "scientificName"),
                  Problem("missing", "scientificName"))
        \o PushIf(~VEither(data, "schema:name", "name"), Problem("missing", "name"))
        \o ScopeErrors(data, systemScopedProps),
     warnings |->
        PushIf(VHas(data, "@type") /\ ~data.typeArray, Problem("type-not-array", "@type"))
        \o SimpleValidateLanguageMap(data.maps["name"], "name")
        \o ValidateIri("sameAs")]

\* validate.js validateTCMHerb: types that include 'Herb'
HerbTypes == {"tcm:Herb", "herbapedia:Herb"}

\* validate.js validateTCMHerb: genericContentProps and the tcm names of each
genericContentProps == <<"history", "traditionalUsage", "modernResearch", "functions">>
TcmPrefixed(prop) == "tcm:" \o prop
TcmCamel(prop) ==
    CASE prop = "history" -> "tcmHistory"
      [] prop = "traditionalUsage" -> "tcmTraditionalUsage"
      [] prop = "modernResearch" -> "tcmModernResearch"
      [] prop = "functions" -> "tcmFunctions"

\* the required properties without hasNature
TcmRequired_NoNature ==
    <<"derivedFromPlant", "name", "pinyin", "hasCategory", "hasFlavor", "entersMeridian">>

\* validate.js validateTCMHerb: the required properties, in the order tested
TcmRequired ==
    <<"derivedFromPlant", "name", "pinyin", "hasCategory", "hasNature", "hasFlavor",
      "entersMeridian">>
TcmRequiredPrefix(prop) == IF prop = "name" THEN "schema:name" ELSE "tcm:" \o prop

\* validate.js SimpleValidator.validateTCMHerb
validateTCMHerb(data) ==
    [errors |->
        PushIf(data.id = "", Problem("missing", "@id"))
        \o PushIf(~VHas(data, "@type"), Problem("missing", "@type"))
        \o Flatten([k \in 1..Len(TcmRequired) |->
              PushIf(~VEither(data, TcmRequiredPrefix(TcmRequired[k]), TcmRequired[k]),
                     Problem("missing", TcmRequired[k]))])
        \o ValidateIri("hasNature"),
     warnings |->
        PushIf(VHas(data, "@type") /\ data.types \cap HerbTypes = {},
               Problem("type-not-herb", "@type"))
        \o Flatten([k \in 1..Len(genericContentProps) |->
              PushIf(/\ VHas(data, genericContentProps[k])
                     /\ ~VHas(data, TcmPrefixed(genericContentProps[k]))
                     /\ ~VHas(data, TcmCamel(genericContentProps[k])),
                     Problem("generic-content", genericContentProps[k]))])]

\* validate.js validateAyurvedaDravya: the required properties, in the order tested
AyurvedaRequired == <<"derivedFromPlant", "hasRasa", "hasVirya", "hasVipaka", "hasGuna">>

\* validate.js SimpleValidator.validateAyurvedaDravya
validateAyurvedaDravya(data) ==
    [errors |->
        PushIf(data.id = "", Problem("missing", "@id"))
        \o Flatten([k \in 1..Len(AyurvedaRequired) |->
              PushIf(~VEither(data, "ayurveda:" \o AyurvedaRequired[k], AyurvedaRequired[k]),
                     Problem("missing", AyurvedaRequired[k]))]),
     warnings |-> <<>>]

\* validate.js getEntityType, on the directory class of the file
getEntityType(path) ==
    CASE path = "entities/plants" -> "plant"
      [] path = "systems/tcm/herbs" -> "tcm-herb"
      [] path = "systems/ayurveda/dravyas" -> "ayurveda-dravya"
      [] path = "systems/tcm" -> "tcm-reference"
      [] path = "systems/ayurveda" -> "ayurveda-reference"
      [] OTHER -> "unknown"

\* validate.js validateFile: a validated document is valid when it has no error
SimpleChecked(result) ==
    [skipped |-> FALSE, valid |-> result.errors = <<>>, errors |-> result.errors,
     warnings |-> result.warnings]

\* validate.js validateFile: the outcome for one file
SimpleValidateFile(file) ==
    LET entityType == getEntityType(file.path)
    IN  IF entityType \in {"tcm-reference", "ayurveda-reference"}
        THEN [skipped |-> TRUE, valid |-> TRUE, errors |-> <<>>, warnings |-> <<>>]
        ELSE IF ~file.ok
        THEN [skipped |-> FALSE, valid |-> FALSE, errors |-> <<Problem("parse", "parse")>>,
              warnings |-> <<>>]
        ELSE IF entityType = "unknown"
        THEN [skipped |-> TRUE, valid |-> TRUE, errors |-> <<>>, warnings |-> <<>>]
        ELSE SimpleChecked(
               CASE entityType = "plant" -> validatePlant(file)
                 [] entityType = "tcm-herb" -> validateTCMHerb(file)
                 [] entityType = "ayurveda-dravya" -> validateAyurvedaDravya(file))

\* validate-data.js validateLanguageMap: one issue per required language missing
ValidateLanguageMap(langMap, fieldName) ==
    IF langMap.kind # "map" THEN <<Problem("invalid-map", fieldName)>>
    ELSE Flatten([k \in 1..Len(REQUIRED_LANGUAGES) |->
            PushIf(REQUIRED_LANGUAGES[k] \notin langMap.langs,
                   LangProblem("language", fieldName, REQUIRED_LANGUAGES[k]))])

\* the issues of the multilingual fields of a list that are present, in list order
LanguageIssues(data, fields) ==
    Flatten([k \in 1..Len(fields) |->
        IF VHas(data, fields[k]) THEN ValidateLanguageMap(data.maps[fields[k]], fields[k])
        ELSE <<>>])

\* the issues of the required fields of a list that are missing, in list order
RequiredIssues(data, fields) ==
    Flatten([k \in 1..Len(fields) |->
        PushIf(~(IF fields[k] = "@id" THEN data.id # "" ELSE VHas(data, fields[k])),
               Problem("missing", fields[k]))])

\* the terminology warnings: a long text of the field without a medical term
TerminologyWarnings(data, field) ==
    IF data.maps[field].kind # "map" THEN <<>>
    ELSE Flatten([k \in 1..Len(REQUIRED_LANGUAGES) |->
            PushIf(REQUIRED_LANGUAGES[k] \in data.maps[field].langs \cap data.plain,
                   LangProblem("terminology", field, REQUIRED_LANGUAGES[k]))])

\* validate-data.js validatePlantEntity
validatePlantEntity(data) ==
    [issues |->
        RequiredIssues(data, <<"@id", "@type", "name">>)
        \o LanguageIssues(data, <<"name", "description", "commonName">>),
     warnings |->
        PushIf(~VHas(data, "description"), Problem("missing-description", "description"))
        \o TerminologyWarnings(data, "description")]

\* validate-data.js validateTcmProfile
validateTcmProfile(data) ==
    [issues |->
        RequiredIssues(data, <<"@id", "@type", "derivedFromPlant", "hasCategory", "hasNature">>)
        \o LanguageIssues(data, <<"tcmHistory", "tcmTraditionalUsage", "tcmModernResearch",
                                  "tcmFunctions", "contraindications", "dosage">>),
     warnings |-> TerminologyWarnings(data, "tcmTraditionalUsage")]

\* validate-data.js validateWesternProfile
validateWesternProfile(data) ==
    [issues |->
        RequiredIssues(data, <<"@id", "@type">>)
        \o LanguageIssues(data, <<"westernHistory", "westernTraditionalUsage",
                                  "westernModernResearch">>),
     warnings |-> <<>>]

\* validate-data.js validateReferenceData
validateReferenceData(data) ==
    IF ~data.hasGraph
    THEN [issues |-> <<Problem("missing", "@graph")>>, warnings |-> <<>>]
    ELSE [issues |->
            Flatten([k \in 1..Len(data.graph) |->
                IF data.graph[k].prefLabel.kind # "absent"
                THEN ValidateLanguageMap(data.graph[k].prefLabel, "prefLabel")
                ELSE <<Problem("missing", "prefLabel")>>]),
          warnings |->
            Flatten([k \in 1..Len(data.graph) |->
                IF data.graph[k].description.kind # "absent"
                THEN ValidateLanguageMap(data.graph[k].description, "description")
                ELSE <<>>])]

\* validate-data.js validateFile: the type of a parsed file and its validator
DataFileType(path) ==
    CASE path = "schema" -> "schema"
      [] path = "entities/plants" -> "plant-entity"
      [] path = "systems/tcm/herbs" -> "tcm-profile"
      [] path = "systems/western/herbs" -> "western-profile"
      [] path = "systems/ayurveda/dravyas" -> "ayurveda-profile"
      [] path \in {"systems/tcm", "systems/ayurveda", "reference"} -> "reference-data"
      [] OTHER -> "other"

\* validate-data.js validateFile: the fileResult of one file
DataValidateFile(file) ==
    LET type == DataFileType(file.path)
        result ==
            CASE type = "schema" -> [issues |-> <<>>, warnings |-> <<>>]
              [] type = "plant-entity" -> validatePlantEntity(file)
              [] type = "tcm-profile" -> validateTcmProfile(file)
              [] type = "western-profile" -> validateWesternProfile(file)
              [] type = "ayurveda-profile" ->
                    [issues |-> LanguageIssues(file, <<"name">>), warnings |-> <<>>]
              [] type = "reference-data" -> validateReferenceData(file)
              [] OTHER ->
                    [issues |-> <<>>,
                     warnings |-> PushIf(file.id = "", Problem("missing", "@id"))]
    IN  IF ~file.ok
        THEN [skipped |-> FALSE, valid |-> FALSE, errors |-> <<Problem("parse", "parse")>>,
              warnings |-> <<>>]
        ELSE [skipped |-> FALSE, valid |-> result.issues = <<>>, errors |-> result.issues,
              warnings |-> result.warnings]

\* the validated documents of the model
AllLangs == {"en", "zh-Hant", "zh-Hans"}
VDoc(path, id, keys, maps) ==
    [ok |-> TRUE, path |-> path, id |-> id, keys |-> keys, typeArray |-> TRUE,
     types |-> {"tcm:Herb"}, maps |-> maps @@ NoMaps, plain |-> {}, hasGraph |-> FALSE,
     graph |-> <<>>]
VPlantKeys == {"@type", "scientificName"}
VTcmKeys ==
    {"@type", "derivedFromPlant", "pinyin", "hasCategory", "hasNature", "hasFlavor",
     "entersMeridian"}
VDravyaKeys == {"@type", "derivedFromPlant", "hasRasa", "hasVirya", "hasVipaka", "hasGuna"}
VNamed == [f \in {"name", "description"} |-> MapOf(AllLangs)]
VGoodPlant == VDoc("entities/plants", "plant/ginseng", VPlantKeys, VNamed)
VGoodTcm ==
    VDoc("systems/tcm/herbs", "tcm/ginseng", VTcmKeys,
         [f \in {"name", "tcmHistory"} |-> MapOf(AllLangs)])
VTcmNoNature == [VGoodTcm EXCEPT !.keys = @ \ {"hasNature"}]
VGoodDravya == VDoc("systems/ayurveda/dravyas", "ayurveda/ginseng", VDravyaKeys, VNamed)
VUnparsable == [VGoodPlant EXCEPT !.ok = FALSE]
ValDocs ==
    {VGoodPlant,
     [VGoodPlant EXCEPT !.keys = @ \cup {"traditionalUsage"}],
     [VGoodPlant EXCEPT !.keys = @ \cup {"history"}],
     [VGoodPlant EXCEPT !.maps = ("tcmFunctions" :> MapOf(AllLangs)) @@ @],
     [VGoodPlant EXCEPT !.typeArray = FALSE,
                        !.maps = ("description" :> NoMap) @@ @],
     [VGoodPlant EXCEPT !.plain = {"en"}],
     [VGoodPlant EXCEPT !.maps = ("description" :> MapOf({"en"})) @@ @],
     [VGoodPlant EXCEPT !.maps = ("name" :> MapOf({"zh-Hant", "zh-Hans"})) @@ @],
     VDoc("entities/plants", "plant/zinc", {"@type"}, VNamed),
     VUnparsable,
     VGoodTcm,
     VTcmNoNature,
     [VTcmNoNature EXCEPT !.keys = @ \cup {"tcm:hasNature"}],
     [VGoodTcm EXCEPT !.keys = @ \cup {"history"}, !.types = {"herbapedia:Plant"}],
     [VGoodTcm EXCEPT !.maps = ("tcmHistory" :> MapOf({"en"})) @@ @],
     [VGoodTcm EXCEPT !.keys = @ \cup {"functions"}],
     VGoodDravya,
     [VGoodDravya EXCEPT !.keys = @ \ {"hasRasa"}],
     VDoc("systems/western/herbs", "western/ginseng", {"@type"},
          [f \in {"westernHistory"} |-> MapOf({"en", "zh-Hant"})]),
     [VDoc("systems/tcm", "", {}, <<>>) EXCEPT
         !.hasGraph = TRUE,
         !.graph = <<[prefLabel |-> MapOf(AllLangs), description |-> MapOf({"en"})]>>],
     VDoc("entities/compounds", "", {"@type"}, VNamed)}

\* validate.js validate: the files it finds lie under entities/ and under the
\* herbs and dravyas directories of the systems
SimpleFound(file) ==
    file.path \in {"entities/plants", "entities/compounds", "systems/tcm/herbs",
                   "systems/ayurveda/dravyas"}

\* the corpora of at most MaxBatchFiles files drawn from a set of documents
MaxBatchFiles == 2
Corpora(docs) == UNION {[1..n -> docs] : n \in 0..MaxBatchFiles}

\* validate.js: results before the first file
SimpleResults == [passed |-> 0, failed |-> 0, warnings |-> 0, errors |-> <<>>]

\* validate.js validateFile: the counters after one file
SimpleCount(res, k, result) ==
    IF result.skipped THEN res
    ELSE IF result.valid THEN [res EXCEPT !.passed = @ + 1]
    ELSE [res EXCEPT !.failed = @ + 1,
                     !.errors = Append(@, [file |-> k, errors |-> result.errors])]

\* validate.js validate: process.exit(1) when results.errors is not empty
SimpleExit(res) == IF Len(res.errors) > 0 THEN 1 ELSE 0

\* validate-data.js: results.summary before the first file
DataSummary ==
    [totalFiles |-> 0, validFiles |-> 0, invalidFiles |-> 0, warnings |-> 0, errors |-> 0]

\* validate-data.js validateFile: the summary after one file
DataCount(sum, file, result) ==
    IF ~file.ok THEN [sum EXCEPT !.invalidFiles = @ + 1, !.errors = @ + 1]
    ELSE [sum EXCEPT !.totalFiles = @ + 1,
                     !.validFiles = IF result.errors = <<>> THEN @ + 1 ELSE @,
                     !.invalidFiles = IF result.errors = <<>> THEN @ ELSE @ + 1,
                     !.warnings = @ + Len(result.warnings),
                     !.errors = @ + Len(result.errors)]

\* a report that fails on warnings too
generateReport_WarningsFail(sum) == sum.invalidFiles = 0 /\ sum.warnings = 0

\* validate-data.js generateReport: its return value
generateReport(sum) == sum.invalidFiles = 0

\* the variables a batch step leaves alone
batchFrame == <<bScript, bDryRun, bOrig, bRuns>>

\* validate.js validate: one turn of the loop over the files
SimpleValidate ==
    /\ bScript = "validate"
    /\ bPc = "loop"
    /\ bI <= Len(bFiles)
    /\ \E result \in {SimpleValidateFile(bFiles[bI])} :
          /\ bDetails' = Append(bDetails, result)
          /\ bSummary' = SimpleCount(bSummary, bI, result)
    /\ bI' = bI + 1
    /\ UNCHANGED <<batchFrame, bFiles, bPc, bExit, bWrites, linkVars, fillVars>>

\* validate.js validate: the summary and the exit, or the return when no file was found
SimpleSummary ==
    /\ bScript = "validate"
    /\ bPc = "loop"
    /\ bI > Len(bFiles)
    /\ bPc' = "exited"
    /\ bExit' = IF Len(bFiles) = 0 THEN 0 ELSE SimpleExit(bSummary)
    /\ bRuns' = bRuns + 1
    /\ UNCHANGED <<bScript, bDryRun, bOrig, bFiles, bI, bDetails, bSummary, bWrites,
                   linkVars, fillVars>>

\* validate-data.js main: one turn of the loop over the files
DataValidate ==
    /\ bScript = "validate-data"
    /\ bPc = "loop"
    /\ bI <= Len(bFiles)
    /\ \E result \in {DataValidateFile(bFiles[bI])} :
          /\ bDetails' = Append(bDetails, result)
          /\ bSummary' = DataCount(bSummary, bFiles[bI], result)
    /\ bI' = bI + 1
    /\ UNCHANGED <<batchFrame, bFiles, bPc, bExit, bWrites, linkVars, fillVars>>

\* validate-data.js main: the report and the exit
DataReport ==
    /\ bScript = "validate-data"
    /\ bPc = "loop"
    /\ bI > Len(bFiles)
    /\ bPc' = "exited"
    /\ bExit' = IF generateReport(bSummary) THEN 0 ELSE 1
    /\ bRuns' = bRuns + 1
    /\ UNCHANGED <<bScript, bDryRun, bOrig, bFiles, bI, bDetails, bSummary, bWrites,
                   linkVars, fillVars>>

\* the detail the running validator recorded for file k
Validated(k) == k \in 1..Len(bDetails) /\ ~bDetails[k].skipped /\ bFiles[k].ok

\* the kinds of error a detail holds
ErrorsOfKind(detail, kind) == SelectSeq(detail.errors, LAMBDA e : e.kind = kind)

\* the system-scoped and generic content keys: the generic and the tcm content
\* properties of validateTCMHerb and the prefixed forms validatePlant lists
ContentKeys ==
    {"history", "traditionalUsage", "modernResearch", "functions",
     "tcmHistory", "tcmTraditionalUsage", "tcmModernResearch", "tcmFunctions",
     "tcmClassicalReference", "tcmSafetyConsideration"}
    \cup {systemScopedProps[k] : k \in 1..Len(systemScopedProps)}

\* C12: for every Plant document the structural validator (validate.js) reports
\* zero scope-violation errors if and only if the document holds no system-scoped
\* or generic content key (traditionalUsage, modernResearch, functions, history,
\* tcmFunctions, tcmTraditionalUsage, ...).
C12_ScopeViolationIff ==
    \A k \in 1..Len(bDetails) :
        (bScript = "validate" /\ Validated(k) /\ getEntityType(bFiles[k].path) = "plant")
        => ((ErrorsOfKind(bDetails[k], "scope") = <<>>)
            <=> ~\E key \in ContentKeys : VHas(bFiles[k], key))

\* a TCM profile whose only possible defect is its hasNature: it parses, holds every
\* other required property and every language map it holds is complete
NoOtherDefect(d) ==
    /\ d.ok
    /\ d.path = "systems/tcm/herbs"
    /\ d.id # ""
    /\ {"@type", "derivedFromPlant", "pinyin", "hasCategory", "hasFlavor", "entersMeridian"}
          \subseteq d.keys
    /\ d.maps["name"].kind = "map"
    /\ \A f \in ValMapFields : d.maps[f].kind = "map" => d.maps[f].langs = AllLangs
    /\ \A f \in ValMapFields : d.maps[f].kind # "string"

\* C13: validating a TCM profile that lacks hasNature and has no other defect reports
\* exactly one error, the missing field hasNature, and the run exits non-zero; the
\* same document with a hasNature reference yields zero errors and passes.
C13_MissingHasNature ==
    \A k \in 1..Len(bDetails) :
        (bScript \in {"validate", "validate-data"} /\ NoOtherDefect(bFiles[k]))
        => /\ ({"hasNature", "tcm:hasNature"} \cap bFiles[k].keys = {}
                => /\ bDetails[k].errors = <<Problem("missing", "hasNature")>>
                   /\ ~bDetails[k].valid
                   /\ (bPc = "exited" => bExit = 1))
           /\ ("hasNature" \in bFiles[k].keys
                => /\ bDetails[k].errors = <<>>
                   /\ bDetails[k].valid
                   /\ ~bDetails[k].skipped)

\* C13 witness: a finished run of validate.js over the profile without hasNature and
\* the same profile with it
C13_Witness ==
    /\ bScript = "validate"
    /\ bPc = "exited"
    /\ bFiles = <<VTcmNoNature, [VTcmNoNature EXCEPT !.keys = @ \cup {"hasNature"}]>>
    /\ bExit = 1
    /\ Len(bSummary.errors) = 1
    /\ bSummary.passed = 1

\* C14: a validation run exits with a non-zero status if and only if at least one
\* validated document has a blocking error, a parse failure included; documents
\* that only have warnings never cause a non-zero exit.
C14_ExitStatus ==
    (bScript \in {"validate", "validate-data"} /\ bPc = "exited")
    => /\ bExit \in {0, 1}
       /\ Len(bDetails) = Len(bFiles)
       /\ (bExit # 0 <=> \E k \in 1..Len(bDetails) :
                            ~bDetails[k].skipped /\ bDetails[k].errors # <<>>)

\* C14 witness: a finished run of validate-data.js that reported warnings and no
\* error and exited with status 0
C14_Witness ==
    /\ bScript = "validate-data"
    /\ bPc = "exited"
    /\ Len(bFiles) = MaxBatchFiles
    /\ bSummary.warnings > 0
    /\ \E k \in 1..Len(bDetails) : bDetails[k].warnings # <<>>
    /\ bExit = 0

(***************************************************************************)
(* The name fixer: fix-scientific-names.js.                                *)
(*                                                                         *)
(* A name is a sequence of atoms: a run of letters, " ", ".", ",", "(" or  *)
(* ")". The atoms of the names of the model are cut so that every          *)
(* occurrence of a table entry in them is a run of whole atoms ("Magnolia" *)
(* is "Ma" "gnolia", since the citation 'Ma' matches inside it). A regular *)
(* expression is a sequence of items: one literal atom, a run of spaces    *)
(* (\s* or \s+), or a run of the class [A-Za-z\.\s]+.                      *)
(***************************************************************************)

\* the string a sequence of atoms spells
RECURSIVE Text(_)
Text(s) == IF s = <<>> THEN "" ELSE Head(s) \o Text(Tail(s))

Lit(a) == [t |-> "atom", a |-> a, min |-> 1]
Spaces(min) == [t |-> "spaces", a |-> " ", min |-> min]
Class == [t |-> "class", a |-> "", min |-> 1]
Lits(s) == [k \in 1..Len(s) |-> Lit(s[k])]

\* the atom is matched by the run item: \s, or [A-Za-z\.\s]
InRun(a, t) == IF t = "spaces" THEN a = " " ELSE a \notin {"(", ")", ",", "-"}

\* the length of the longest prefix of s whose atoms are all in the run
RECURSIVE RunLen(_, _)
RunLen(s, t) == IF s = <<>> \/ ~InRun(Head(s), t) THEN 0 ELSE 1 + RunLen(Tail(s), t)

Drop(s, n) == SubSeq(s, n + 1, Len(s))
Plus(n, rest) == IF rest < 0 THEN -1 ELSE n + rest

\* the length of the match of the pattern at the head of s, -1 when there is none;
\* every run is followed by an atom outside it, so the greedy run is the match
RECURSIVE MatchLen(_, _)
MatchRun(s, pat, n) ==
    IF n < Head(pat).min THEN -1 ELSE Plus(n, MatchLen(Drop(s, n), Tail(pat)))
MatchLen(s, pat) ==
    IF pat = <<>> THEN 0
    ELSE IF Head(pat).t = "atom"
    THEN IF s # <<>> /\ Head(s) = Head(pat).a THEN Plus(1, MatchLen(Tail(s), Tail(pat)))
         ELSE -1
    ELSE MatchRun(s, pat, RunLen(s, Head(pat).t))

\* String.prototype.includes of a literal
RECURSIVE Includes(_, _)
Includes(s, lit) ==
    IF MatchLen(s, Lits(lit)) >= 0 THEN TRUE
    ELSE IF s = <<>> THEN FALSE
    ELSE Includes(Tail(s), lit)

\* String.prototype.replace of a literal: the first occurrence only
RECURSIVE ReplaceFirst(_, _, _)
ReplaceFirst(s, lit, rep) ==
    IF MatchLen(s, Lits(lit)) >= 0 THEN rep \o Drop(s, Len(lit))
    ELSE IF s = <<>> THEN <<>>
    ELSE <<Head(s)>> \o ReplaceFirst(Tail(s), lit, rep)

\* String.prototype.replace of a /g regular expression: every match, left to right
RECURSIVE ReplaceAll(_, _, _)
ReplaceMatch(s, pat, rep, n) ==
    IF n > 0 THEN rep \o ReplaceAll(Drop(s, n), pat, rep)
    ELSE <<Head(s)>> \o ReplaceAll(Tail(s), pat, rep)
ReplaceAll(s, pat, rep) ==
    IF s = <<>> THEN <<>> ELSE ReplaceMatch(s, pat, rep, MatchLen(s, pat))

\* fix-scientific-names.js TYPO_CORRECTIONS: the entries that occur in the names of
\* the model, in table order
TYPO_CORRECTIONS ==
    <<[typo |-> <<"Polygonum", " ", "multiflorum", " ", "Thunb", ".">>,
       correction |-> <<"Reynoutria", " ", "multiflora">>],
      [typo |-> <<"Polygonum", " ", "multiflorum", " ", "Thunb">>,
       correction |-> <<"Reynoutria", " ", "multiflora">>],
      [typo |-> <<"Ma", "gnolia", " ", "denudata">>,
       correction |-> <<"Ma", "gnolia", " ", "denudata">>]>>

\* fix-scientific-names.js AUTHOR_CITATIONS: the entries that occur in the names of
\* the model, in list order
AUTHOR_CITATIONS ==
    <<<<"L", ".">>,
      <<"Thunb", ".">>,
      <<"Ma">>,
      <<"C", ".", " ", "A", ".", " ", "Mey">>,
      <<"C", ".", " ", "A", ".", " ", "Mey", ".">>>>

\* fix-scientific-names.js SKIP_PATTERNS: the entries that occur in the names
SKIP_PATTERNS == <<<<"Massa", " ", "Fermentata">>, <<"Processed">>>>

\* fixScientificName: the loop over TYPO_CORRECTIONS from entry k on
RECURSIVE ApplyTypos(_, _)
ApplyTypos(fixed, k) ==
    IF k > Len(TYPO_CORRECTIONS) THEN fixed
    ELSE ApplyTypos(
           IF Includes(fixed, TYPO_CORRECTIONS[k].typo)
           THEN ReplaceFirst(fixed, TYPO_CORRECTIONS[k].typo, TYPO_CORRECTIONS[k].correction)
           ELSE fixed,
           k + 1)

\* fixScientificName complexPatterns[0]: /\s*\([A-Za-z\.\s]+\)\s*/g
ParenGroup == <<Spaces(0), Lit("("), Class, Lit(")"), Spaces(0)>>

\* a match of ParenGroup is a match of complexPatterns[1],
\* /\s*\([A-Za-z\.\s]+ Ex [A-Za-z\.\s]+\)\s*/gi, when ' Ex ' in any case stands
\* inside the parentheses with something on either side
HasEx(m) ==
    \E k \in 2..(Len(m) - 1) :
        /\ m[k] \in {"Ex", "ex", "EX", "eX"}
        /\ m[k - 1] = " "
        /\ m[k + 1] = " "
        /\ \E o \in 1..(k - 3) : m[o] = "("
        /\ \E c \in (k + 3)..Len(m) : m[c] = ")"

RECURSIVE StripEx(_)
StripExMatch(s, n) ==
    IF n > 0 /\ HasEx(SubSeq(s, 1, n)) THEN <<" ">> \o StripEx(Drop(s, n))
    ELSE <<Head(s)>> \o StripEx(Tail(s))
StripEx(s) == IF s = <<>> THEN <<>> ELSE StripExMatch(s, MatchLen(s, ParenGroup))

\* fixScientificName: the loop over complexPatterns
StripComplex(fixed) == StripEx(ReplaceAll(fixed, ParenGroup, <<" ">>))

\* fixScientificName: the loop over AUTHOR_CITATIONS from entry k on
RECURSIVE StripCitations(_, _)
StripCitations(fixed, k) ==
    IF k > Len(AUTHOR_CITATIONS) THEN fixed
    ELSE StripCitations(
           ReplaceAll(fixed, <<Spaces(0)>> \o Lits(AUTHOR_CITATIONS[k]) \o <<Spaces(0)>>,
                      <<" ">>),
           k + 1)

\* fixScientificName: the chain of replacements that cleans spaces and punctuation
CleanUp(fixed) ==
    Trim(
      ReplaceAll(
        ReplaceAll(
          ReplaceAll(
            ReplaceAll(
              ReplaceAll(
                ReplaceAll(
                  ReplaceAll(fixed, <<Spaces(1)>>, <<" ">>),
                  <<Spaces(0), Lit(","), Spaces(0)>>, <<" ">>),
                <<Spaces(1), Lit(".")>>, <<>>),
              <<Lit("."), Spaces(1)>>, <<" ">>),
            <<Lit("("), Spaces(0), Lit(")")>>, <<>>),
          <<Lit("("), Spaces(1)>>, <<"(">>),
        <<Spaces(1), Lit(")")>>, <<")">>))

\* fixScientificName: one trailing period is removed
StripPeriod(fixed) ==
    IF fixed # <<>> /\ fixed[Len(fixed)] = "." THEN SubSeq(fixed, 1, Len(fixed) - 1)
    ELSE fixed

\* a normalizer that strips the citations before it applies the table
fixScientificName_CitationsFirst(name) ==
    IF \E k \in 1..Len(SKIP_PATTERNS) : Includes(Trim(name), SKIP_PATTERNS[k])
    THEN [name |-> Trim(name), skipped |-> TRUE]
    ELSE [name |-> StripPeriod(CleanUp(ApplyTypos(StripCitations(StripComplex(Trim(name)), 1), 1))),
          skipped |-> FALSE]

\* fix-scientific-names.js fixScientificName, for a non-empty name
fixScientificName(name) ==
    IF \E k \in 1..Len(SKIP_PATTERNS) : Includes(Trim(name), SKIP_PATTERNS[k])
    THEN [name |-> Trim(name), skipped |-> TRUE]
    ELSE [name |-> StripPeriod(CleanUp(StripCitations(StripComplex(ApplyTypos(Trim(name), 1)), 1))),
          skipped |-> FALSE]

\* the plant entities the name fixer reads: scientificName is <<>> when missing
Entity(name) == [ok |-> TRUE, scientificName |-> name]
Ginseng == <<"Panax", " ", "ginseng">>
FixNames ==
    {Ginseng,
     Ginseng \o <<" ", "C", ".", " ", "A", ".", " ", "Mey", ".">>,
     <<"Polygonum", " ", "multiflorum", " ", "Thunb", ".">>,
     <<"Ziziphus", " ", "jujuba", " ", "var", ".", " ", "spinosa">>,
     <<"Aloe", " ", "vera", " ", "(", "L", ".", ",", " ", "Burm", ".", " ", "f", ".", ")">>,
     <<"Ma", "gnolia", " ", "officinalis">>,
     <<"Massa", " ", "Fermentata">>,
     <<"Rosa", " ", "rugosa", " ", "(", "Thunb", ".", ")", " ", "L", ".">>,
     <<>>}
FixDocs == {Entity(n) : n \in FixNames} \cup {[ok |-> FALSE, scientificName |-> <<>>]}

\* fix-scientific-names.js processEntity, for an entity that parses: the result it
\* returns; names are compared as the strings they spell
FixResult(status, reason, original, fixed) ==
    [status |-> status, reason |-> reason, original |-> original, fixed |-> fixed]
FixOutcome(originalName, result) ==
    IF result.skipped THEN FixResult("skipped", "non-scientific", originalName, originalName)
    ELSE IF Text(result.name) = Text(originalName)
    THEN FixResult("unchanged", "", originalName, originalName)
    ELSE FixResult("fixed", "", originalName, result.name)
processEntity(ent) ==
    IF ent.scientificName = <<>>
    THEN FixResult("skipped", "no_scientific_name", <<>>, <<>>)
    ELSE FixOutcome(ent.scientificName, fixScientificName(ent.scientificName))

\* fix-scientific-names.js main: results before the first file, and after one more
FixResults == [fixed |-> 0, unchanged |-> 0, skipped |-> 0]
FixCount(res, result) ==
    IF result.status = "fixed" THEN [res EXCEPT !.fixed = @ + 1]
    ELSE IF result.status = "unchanged" THEN [res EXCEPT !.unchanged = @ + 1]
    ELSE [res EXCEPT !.skipped = @ + 1]

\* fix-scientific-names.js main: one turn of the loop; processEntity is not guarded,
\* so a file that does not parse ends the run with the uncaught exception
FixEntity ==
    /\ bScript = "fix-names"
    /\ bPc = "loop"
    /\ bI <= Len(bFiles)
    /\ IF ~bFiles[bI].ok
       THEN /\ bPc' = "aborted"
            /\ bExit' = 1
            /\ UNCHANGED <<bFiles, bI, bDetails, bSummary, bWrites>>
       ELSE \E result \in {processEntity(bFiles[bI])} :
            /\ bDetails' = Append(bDetails, result)
            /\ bSummary' = FixCount(bSummary, result)
            /\ IF result.status = "fixed" /\ ~bDryRun
               THEN /\ bFiles' = [bFiles EXCEPT ![bI].scientificName = result.fixed]
                    /\ bWrites' = [bWrites EXCEPT ![bI] = @ + 1]
               ELSE UNCHANGED <<bFiles, bWrites>>
            /\ bI' = bI + 1
            /\ UNCHANGED <<bPc, bExit>>
    /\ UNCHANGED <<batchFrame, linkVars, fillVars>>

(***************************************************************************)
(* The compound linker: link-compounds.js. An entity of a COMPOUND_MAP     *)
(* slug: exists, ok (it parses), containsChemical (the references, <<>>    *)
(* when missing or empty), modified (the run that stamped it).             *)
(***************************************************************************)

\* link-compounds.js COMPOUND_MAP[slug].map(c => ({'@id': c}))
COMPOUND_MAP(slug) ==
    IF slug = "ginseng"
    THEN <<"chemical/ginsenosides", "chemical/polysaccharides", "chemical/saponins">>
    ELSE <<"chemical/ginsenosides", "chemical/polysaccharides">>

CompoundDoc(slug, refs) ==
    [exists |-> TRUE, ok |-> TRUE, slug |-> slug, containsChemical |-> refs, modified |-> 0]
CompoundDocs ==
    {CompoundDoc("ginseng", <<>>),
     CompoundDoc("american-ginseng", <<>>),
     CompoundDoc("ginseng", <<"chemical/flavonoids">>),
     [CompoundDoc("ginseng", <<>>) EXCEPT !.ok = FALSE],
     [CompoundDoc("american-ginseng", <<>>) EXCEPT !.exists = FALSE]}

\* link-compounds.js main: updatedCount and skippedCount
CompoundCounts == [updated |-> 0, skipped |-> 0]

\* link-compounds.js main: one turn of the loop over COMPOUND_MAP
LinkCompounds ==
    /\ bScript = "link-compounds"
    /\ bPc = "loop"
    /\ bI <= Len(bFiles)
    /\ IF ~bFiles[bI].exists
       THEN /\ bDetails' = Append(bDetails, [status |-> "not_found"])
            /\ UNCHANGED <<bFiles, bSummary, bWrites>>
       ELSE IF ~bFiles[bI].ok
       THEN /\ bDetails' = Append(bDetails, [status |-> "error"])
            /\ UNCHANGED <<bFiles, bSummary, bWrites>>
       ELSE IF Len(bFiles[bI].containsChemical) > 0
       THEN /\ bDetails' = Append(bDetails, [status |-> "skipped"])
            /\ bSummary' = [bSummary EXCEPT !.skipped = @ + 1]
            /\ UNCHANGED <<bFiles, bWrites>>
       ELSE /\ bDetails' = Append(bDetails, [status |-> "updated"])
            /\ bSummary' = [bSummary EXCEPT !.updated = @ + 1]
            /\ bFiles' = [bFiles EXCEPT
                             ![bI].containsChemical = COMPOUND_MAP(bFiles[bI].slug),
                             ![bI].modified = bRuns + 1]
            /\ bWrites' = [bWrites EXCEPT ![bI] = @ + 1]
    /\ bI' = bI + 1
    /\ UNCHANGED <<batchFrame, bPc, bExit, linkVars, fillVars>>

(***************************************************************************)
(* The migration: migrate-yaml-to-jsonld.js. A herb of the YAML source:    *)
(* category, and bad when generating its entity raises.                    *)
(***************************************************************************)

MigrateDocs ==
    {[slug |-> "ginseng", category |-> c, bad |-> b] :
        c \in {"chinese-herbs", "western-herbs"}, b \in BOOLEAN}

\* migrate-yaml-to-jsonld.js stats
MigrateStats == [processed |-> 0, plants |-> 0, profiles |-> 0, skipped |-> 0, errors |-> 0]

\* migrate-yaml-to-jsonld.js writeJsonLd: the files written for a herb
HerbWrites(herbData, dry) ==
    IF dry THEN 0 ELSE IF herbData.category = "chinese-herbs" THEN 2 ELSE 1

\* migrate-yaml-to-jsonld.js migrateHerb: the stats after a herb
migrateHerb(stats, herbData) ==
    [stats EXCEPT !.plants = @ + 1,
                  !.profiles = IF herbData.category = "chinese-herbs" THEN @ + 1 ELSE @,
                  !.processed = @ + 1]

\* migrate-yaml-to-jsonld.js migrate: one turn of the loop over the herbs
MigrateHerb ==
    /\ bScript = "migrate"
    /\ bPc = "loop"
    /\ bI <= Len(bFiles)
    /\ IF bFiles[bI].bad
       THEN /\ bDetails' = Append(bDetails, [status |-> "error"])
            /\ bSummary' = [bSummary EXCEPT !.errors = @ + 1]
            /\ UNCHANGED bWrites
       ELSE /\ bDetails' = Append(bDetails, [status |-> "success"])
            /\ bSummary' = migrateHerb(bSummary, bFiles[bI])
            /\ bWrites' = [bWrites EXCEPT ![bI] = @ + HerbWrites(bFiles[bI], bDryRun)]
    /\ bI' = bI + 1
    /\ UNCHANGED <<batchFrame, bFiles, bPc, bExit, linkVars, fillVars>>

\* the summary that ends the name fixer, the compound linker and the migration
BatchSummary ==
    /\ bScript \in {"fix-names", "link-compounds", "migrate"}
    /\ bPc = "loop"
    /\ bI > Len(bFiles)
    /\ bPc' = "exited"
    /\ bExit' = 0
    /\ bRuns' = bRuns + 1
    /\ UNCHANGED <<bScript, bDryRun, bOrig, bFiles, bI, bDetails, bSummary, bWrites,
                   linkVars, fillVars>>

(***************************************************************************)
(* The index builder: build-index.js. A file is a plant entity or a TCM    *)
(* profile: slug is its directory, categoryId the '@id' of hasCategory     *)
(* without 'category/' ("" when hasCategory is no object with an '@id'),   *)
(* plantRef the value of derivedFromPlant: no value, an object whose '@id' *)
(* is 'plant/{slug}' or 'plant/{slug}#{part}', or that text as a string.   *)
(***************************************************************************)

DisplayCategories == {"chinese-herbs", "western-herbs", "vitamins", "minerals", "nutrients"}

\* build-index.js TCM_CATEGORY_MAP[categoryId]: every own key maps to 'chinese-herbs';
\* a key inherited from Object.prototype yields a function; any other key undefined
TcmCategoryKeys == {"tonify-qi", "tonify-blood", "clear-heat", "calm-spirit"}
ObjectPrototypeKeys == {"constructor", "toString", "valueOf", "hasOwnProperty"}
TCM_CATEGORY_MAP(categoryId) ==
    IF categoryId \in TcmCategoryKeys THEN "chinese-herbs"
    ELSE IF categoryId \in ObjectPrototypeKeys THEN "function " \o categoryId
    ELSE "undefined"

\* build-index.js getCategoryFromTcmProfile
getCategoryFromTcmProfile(tcmData) ==
    IF tcmData.categoryId # "" /\ TCM_CATEGORY_MAP(tcmData.categoryId) # "undefined"
    THEN TCM_CATEGORY_MAP(tcmData.categoryId)
    ELSE "chinese-herbs"

\* the values of derivedFromPlant; part is "" when the '@id' names no plant part
NoRef == [form |-> "absent", slug |-> "", part |-> ""]
ObjRef(slug, part) == [form |-> "object", slug |-> slug, part |-> part]
StrRef(slug) == [form |-> "string", slug |-> slug, part |-> ""]

\* build-index.js buildTcmIndex: plantSlug, null unless derivedFromPlant is an object;
\* plantRef.replace('plant/', '').replace('#root', '') leaves any other part in
PlantSlugOf(ref) ==
    IF ref.form # "object" THEN "null"
    ELSE IF ref.part \in {"", "root"} THEN ref.slug
    ELSE ref.slug \o "#" \o ref.part

\* build-index.js buildPlantIndex / buildTcmIndex: the entry pushed for one file that
\* parses; parseJsonLdFile returns null for one that does not and the loop goes on
IndexEntry(file) ==
    IF ~file.ok THEN [parsed |-> FALSE, type |-> file.kind, slug |-> file.slug,
                      category |-> "", plantSlug |-> "null"]
    ELSE IF file.kind = "plant"
    THEN [parsed |-> TRUE, type |-> "plant", slug |-> file.slug, category |-> "",
          plantSlug |-> "null"]
    ELSE [parsed |-> TRUE, type |-> "tcm-herb", slug |-> file.slug,
          category |-> getCategoryFromTcmProfile(file),
          plantSlug |-> PlantSlugOf(file.plantRef)]

\* build-index.js buildMergedIndex: the category of a plant without profile
MineralSlugs ==
    {"calcium", "copper", "iodine", "iron", "magnesium", "manganese", "potassium",
     "selenium", "zinc"}
SlugCategory(slug) ==
    IF slug \in {"vitamin-c", "vitamin-e"} THEN "vitamins"
    ELSE IF slug \in MineralSlugs THEN "minerals"
    ELSE IF slug \in {"choline", "lecithin", "lysine", "melatonin"} THEN "nutrients"
    ELSE "western-herbs"

\* build-index.js buildMergedIndex: the entries of the merged index
HerbEntry(tcm) ==
    [slug |-> tcm.plantSlug, tcmSlug |-> tcm.slug, category |-> tcm.category,
     type |-> "herb"]
PlantEntry(plant) ==
    [slug |-> plant.slug, tcmSlug |-> "", category |-> SlugCategory(plant.slug),
     type |-> "plant"]
MergedEntries(plants, tcmHerbs) ==
    [k \in 1..Len(tcmHerbs) |-> HerbEntry(tcmHerbs[k])]
    \o [k \in 1..Len(SelectSeq(plants, LAMBDA p :
                   \A t \in 1..Len(tcmHerbs) : tcmHerbs[t].plantSlug # p.slug)) |->
          PlantEntry(SelectSeq(plants, LAMBDA p :
                   \A t \in 1..Len(tcmHerbs) : tcmHerbs[t].plantSlug # p.slug)[k])]

\* build-index.js buildMergedIndex: categoryCounts; an entry whose category is not
\* one of the five keys is not counted
CategoryCounts(merged) ==
    [c \in DisplayCategories |-> Len(SelectSeq(merged, LAMBDA e : e.category = c))]

\* build-index.js buildMergedIndex and the index build() writes
buildMergedIndex(plants, tcmHerbs) ==
    [plants |-> Len(plants), tcmHerbs |-> Len(tcmHerbs),
     herbs |-> MergedEntries(plants, tcmHerbs),
     total |-> Len(MergedEntries(plants, tcmHerbs)),
     categories |-> CategoryCounts(MergedEntries(plants, tcmHerbs))]

\* the files of the model
IdxPlant(slug) ==
    [ok |-> TRUE, kind |-> "plant", slug |-> slug, categoryId |-> "", plantRef |-> NoRef]
IdxProfile(slug, categoryId, plantRef) ==
    [ok |-> TRUE, kind |-> "tcm", slug |-> slug, categoryId |-> categoryId,
     plantRef |-> plantRef]
IdxDocs ==
    {IdxPlant("ginseng"), IdxPlant("mint"), IdxPlant("vitamin-c"), IdxPlant("zinc"),
     [IdxPlant("lecithin") EXCEPT !.ok = FALSE],
     IdxProfile("ren-shen", "tonify-qi", ObjRef("ginseng", "root")),
     IdxProfile("ren-shen-ye", "tonify-qi", ObjRef("ginseng", "leaf")),
     IdxProfile("bo-he", "", ObjRef("mint", "")),
     IdxProfile("bo-he-you", "", StrRef("mint")),
     IdxProfile("xin", "", ObjRef("zinc", "")),
     IdxProfile("gu-shen", "constructor", ObjRef("ginseng", "")),
     IdxProfile("long-gu", "calm-spirit", ObjRef("dragon-bone", "")),
     [IdxProfile("fu-ling", "drain-damp", ObjRef("poria", "")) EXCEPT !.ok = FALSE]}

\* the corpora of the index builder: at most MaxIndexFiles files of distinct
\* directories, the plant entities before the profiles as build() reads them
MaxIndexFiles == 3
IndexCorpora ==
    {c \in UNION {[1..n -> IdxDocs] : n \in 0..MaxIndexFiles} :
        /\ \A a, b \in 1..Len(c) : a # b => c[a].slug # c[b].slug
        /\ \A a, b \in 1..Len(c) : (a < b /\ c[b].kind = "plant") => c[a].kind = "plant"}

\* build-index.js buildPlantIndex / buildTcmIndex: one turn of the loops over the files
IndexParse ==
    /\ bScript = "build-index"
    /\ bPc = "loop"
    /\ bI <= Len(bFiles)
    /\ bDetails' = Append(bDetails, IndexEntry(bFiles[bI]))
    /\ bI' = bI + 1
    /\ UNCHANGED <<batchFrame, bFiles, bPc, bSummary, bExit, bWrites, linkVars, fillVars>>

\* build-index.js build: the merge and the writing of the index files
IndexMerge ==
    /\ bScript = "build-index"
    /\ bPc = "loop"
    /\ bI > Len(bFiles)
    /\ bSummary' = buildMergedIndex(
                      SelectSeq(bDetails, LAMBDA e : e.parsed /\ e.type = "plant"),
                      SelectSeq(bDetails, LAMBDA e : e.parsed /\ e.type = "tcm-herb"))
    /\ bPc' = "exited"
    /\ bExit' = 0
    /\ bRuns' = bRuns + 1
    /\ UNCHANGED <<bScript, bDryRun, bOrig, bFiles, bI, bDetails, bWrites,
                   linkVars, fillVars>>

\* the counters a script starts from
StartSummary(s) ==
    CASE s = "validate" -> SimpleResults
      [] s = "validate-data" -> DataSummary
      [] s = "fix-names" -> FixResults
      [] s = "link-compounds" -> CompoundCounts
      [] s = "migrate" -> MigrateStats
      [] s = "build-index" -> <<>>

\* a batch script is started on a corpus
BatchStart(s, dry, corpus) ==
    /\ bScript = s
    /\ bDryRun = dry
    /\ bFiles = corpus
    /\ bOrig = corpus
    /\ bI = 1
    /\ bPc = "loop"
    /\ bDetails = <<>>
    /\ bSummary = StartSummary(s)
    /\ bExit = -1
    /\ bWrites = [k \in 1..Len(corpus) |-> 0]
    /\ bRuns = 0

\* the run is interrupted between two files: what is written stays written
BatchInterrupt ==
    /\ bPc = "loop"
    /\ bI \in 2..Len(bFiles)
    /\ bPc' = "interrupted"
    /\ bExit' = 130
    /\ UNCHANGED <<batchFrame, bFiles, bI, bDetails, bSummary, bWrites, linkVars, fillVars>>

\* the script is started again on the corpus the last run left
BatchRerun ==
    /\ bPc \in {"exited", "interrupted"}
    /\ bRuns < MaxRuns
    /\ bI' = 1
    /\ bPc' = "loop"
    /\ bDetails' = <<>>
    /\ bSummary' = StartSummary(bScript)
    /\ bExit' = -1
    /\ bRuns' = IF bPc = "interrupted" THEN bRuns + 1 ELSE bRuns
    /\ UNCHANGED <<bScript, bDryRun, bOrig, bFiles, bWrites, linkVars, fillVars>>

InitVal ==
    /\ LinkIdle
    /\ FillIdle
    /\ \/ \E corpus \in Corpora({d \in ValDocs : SimpleFound(d)}) :
             BatchStart("validate", FALSE, corpus)
       \/ \E corpus \in Corpora(ValDocs) : BatchStart("validate-data", FALSE, corpus)

NextVal ==
    SimpleValidate \/ SimpleSummary \/ DataValidate \/ DataReport \/ BatchInterrupt
    \/ BatchRerun

SpecVal == InitVal /\ [][NextVal]_vars

InitFix ==
    /\ LinkIdle
    /\ FillIdle
    /\ \E dry \in BOOLEAN, corpus \in Corpora(FixDocs) : BatchStart("fix-names", dry, corpus)

NextFix == FixEntity \/ BatchSummary \/ BatchInterrupt \/ BatchRerun

SpecFix == InitFix /\ [][NextFix]_vars

InitIndex ==
    /\ LinkIdle
    /\ FillIdle
    /\ \E corpus \in IndexCorpora : BatchStart("build-index", FALSE, corpus)

NextIndex == IndexParse \/ IndexMerge

SpecIndex == InitIndex /\ [][NextIndex]_vars

\* every batch script of the repository, one of them started
InitBatch ==
    \/ InitLink
    \/ InitFill
    \/ InitFix
    \/ InitIndex
    \/ /\ LinkIdle
       /\ FillIdle
       /\ \/ \E s \in {"validate", "validate-data"},
                corpus \in Corpora({VGoodPlant, VUnparsable, VTcmNoNature}) :
                BatchStart(s, FALSE, corpus)
          \/ \E corpus \in Corpora(CompoundDocs) : BatchStart("link-compounds", FALSE, corpus)
          \/ \E dry \in BOOLEAN, corpus \in Corpora(MigrateDocs) :
                BatchStart("migrate", dry, corpus)

NextBatch ==
    NextLink \/ NextFill \/ NextVal \/ NextFix \/ NextIndex \/ LinkCompounds \/ MigrateHerb

SpecBatch == InitBatch /\ [][NextBatch]_vars

\* C15: in every batch script a document that fails to parse or to process is
\* isolated: no run ends before its summary, and a run that has reached its summary
\* has processed every document of the corpus.
C15_FailuresIsolated ==
    /\ bPc # "aborted"
    /\ bPc = "exited" => (bI = Len(bFiles) + 1 /\ Len(bDetails) = Len(bFiles))
    /\ pc = "summary" => Len(results.details) = Len(files)
    /\ fPc = "summary" => fI = Len(fFiles)

\* C16: re-running a mutating script after an interruption yields the documents of
\* one uninterrupted run: a document the script has written is left as it is by
\* every later pass over it (a later pass is the second processing of the documents
\* the interrupted run had reached).
C16_RerunAfterInterruption ==
    [][/\ \A k \in 1..Len(bFiles) : bWrites[k] >= 1 => bFiles'[k] = bFiles[k]
       /\ \A k \in 1..Len(fFiles) : fWrites[k] >= 1 => fFiles'[k] = fFiles[k]
       /\ \A k \in 1..Len(files) : writes[k] >= 1 => files'[k] = files[k]]_vars

\* the counters the filler shows after the first n files of a corpus
RECURSIVE FillCountsOf(_, _)
FillCountStep(counts, result, kind) ==
    IF result.error THEN [counts EXCEPT !.errorCount = @ + 1]
    ELSE IF result.modified
    THEN [counts EXCEPT !.modifiedCount = @ + 1, !.stats[kind] = @ + 1]
    ELSE counts
FillCountsOf(corpus, n) ==
    IF n = 0 THEN NoCounts
    ELSE FillCountStep(FillCountsOf(corpus, n - 1), ProcessFile(corpus[n]), corpus[n].kind)

\* the batch script is in its first pass over the corpus, or has just ended it
BatchFirstRun == (bRuns = 0 /\ bPc = "loop") \/ (bRuns = 1 /\ bPc = "exited")

\* the number of details with a status
StatusCount(details, status) == Len(SelectSeq(details, LAMBDA d : d.status = status))

\* C17: with the dry-run flag the name fixer, the translation filler, the GBIF and
\* Wikidata linkers and the migration write no file, while the statuses and the
\* counts they report are those of a run without the flag: they are determined by
\* the corpus as it was before the run (and, for the linkers, by the answers of
\* the service), whatever the flag.
C17_DryRunOnlySuppressesWrites ==
    /\ dryRun => \A k \in 1..Len(writes) : writes[k] = 0
    /\ fDryRun => (fFiles = fOrig /\ \A k \in 1..Len(fWrites) : fWrites[k] = 0)
    /\ bDryRun => (bFiles = bOrig /\ \A k \in 1..Len(bWrites) : bWrites[k] = 0)
    /\ (bScript = "fix-names" /\ BatchFirstRun)
        => /\ \A k \in 1..Len(bDetails) : bDetails[k] = processEntity(bOrig[k])
           /\ bSummary = [fixed |-> StatusCount(bDetails, "fixed"),
                          unchanged |-> StatusCount(bDetails, "unchanged"),
                          skipped |-> StatusCount(bDetails, "skipped")]
    /\ (bScript = "migrate" /\ BatchFirstRun)
        => /\ \A k \in 1..Len(bDetails) :
                bDetails[k].status = IF bOrig[k].bad THEN "error" ELSE "success"
           /\ bSummary.processed = StatusCount(bDetails, "success")
           /\ bSummary.plants = StatusCount(bDetails, "success")
           /\ bSummary.errors = StatusCount(bDetails, "error")
    /\ (fPc = "loop" /\ fRuns = 0) => fCounts = FillCountsOf(fOrig, fI - 1)
    /\ (fPc = "summary" /\ fRuns = 1) => fCounts = FillCountsOf(fOrig, Len(fOrig))
    /\ ((runs = 0 /\ pc # "idle") \/ (runs = 1 /\ pc = "summary"))
        => \A k \in 1..Len(results.details) :
              results.details[k].status = "linked"
              => writes[results.details[k].slug] = (IF dryRun THEN 0 ELSE 1)

\* C17 witness: a finished dry run of the name fixer that reported a fixed name and
\* wrote nothing
C17_Witness ==
    /\ bScript = "fix-names"
    /\ bDryRun
    /\ bPc = "exited"
    /\ bSummary.fixed >= 1
    /\ bFiles = bOrig
    /\ \A k \in 1..Len(bWrites) : bWrites[k] = 0

\* the plant entities and the profiles the finished build has parsed
ParsedPlants == SelectSeq(bDetails, LAMBDA e : e.parsed /\ e.type = "plant")
ParsedProfiles == SelectSeq(bDetails, LAMBDA e : e.parsed /\ e.type = "tcm-herb")

\* the profile's derivedFromPlant names a plant entity of the corpus
Resolves(profile) == \E p \in 1..Len(ParsedPlants) : ParsedPlants[p].slug = profile.plantSlug

\* the plant entity has a profile
HasProfile(plant) ==
    \E t \in 1..Len(ParsedProfiles) : ParsedProfiles[t].plantSlug = plant.slug

\* C18: the merged index holds one herb entry per profile whose derivedFromPlant
\* resolves to an existing plant and one plant entry per plant without profile; a
\* profile whose plant does not exist is not a merged entry.
C18_MergedEntries ==
    (bScript = "build-index" /\ bPc = "exited")
    => /\ Len(SelectSeq(bSummary.herbs, LAMBDA e : e.type = "herb"))
            = Len(SelectSeq(ParsedProfiles, Resolves))
       /\ Len(SelectSeq(bSummary.herbs, LAMBDA e : e.type = "plant"))
            = Len(SelectSeq(ParsedPlants, LAMBDA p : ~HasProfile(p)))
       /\ \A k \in 1..Len(bSummary.herbs) :
             \E p \in 1..Len(ParsedPlants) : ParsedPlants[p].slug = bSummary.herbs[k].slug
       /\ bSummary.total = Len(bSummary.herbs)

\* the explicit classification of a merged entry: the hasCategory of its profile
\* names a category of TCM_CATEGORY_MAP
ExplicitCategory(e) ==
    /\ e.type = "herb"
    /\ \E k \in 1..Len(bFiles) :
          /\ bFiles[k].kind = "tcm"
          /\ bFiles[k].slug = e.tcmSlug
          /\ bFiles[k].categoryId \in TcmCategoryKeys

\* C19: every entry of the merged index is in exactly one of the five display
\* categories, chosen by the explicit classification reference, then by the slug
\* patterns, then by default, and the category counts sum to the number of entries.
C19_OneDisplayCategory ==
    (bScript = "build-index" /\ bPc = "exited")
    => /\ \A k \in 1..Len(bSummary.herbs) :
             /\ bSummary.herbs[k].category \in DisplayCategories
             /\ ExplicitCategory(bSummary.herbs[k])
                   => bSummary.herbs[k].category = "chinese-herbs"
             /\ (~ExplicitCategory(bSummary.herbs[k])
                 /\ SlugCategory(bSummary.herbs[k].slug) # "western-herbs")
                   => bSummary.herbs[k].category = SlugCategory(bSummary.herbs[k].slug)
       /\ bSummary.categories["chinese-herbs"] + bSummary.categories["western-herbs"]
          + bSummary.categories["vitamins"] + bSummary.categories["minerals"]
          + bSummary.categories["nutrients"] = Len(bSummary.herbs)

\* C20: the name normalizer applies the typo and synonym table before it strips the
\* author citations: a raw name that holds the table pattern 'Polygonum multiflorum
\* Thunb.', citation included, becomes the table's 'Reynoutria multiflora'.
C20_TypoTableBeforeCitations ==
    bScript = "fix-names"
    => \A k \in 1..Len(bDetails) :
          Includes(bDetails[k].original, TYPO_CORRECTIONS[1].typo)
          => /\ Text(bDetails[k].original) = "Polygonum multiflorum Thunb."
             /\ bDetails[k].status = "fixed"
             /\ Text(bDetails[k].fixed) = "Reynoutria multiflora"
             /\ ~bDryRun => Text(bFiles[k].scientificName) = "Reynoutria multiflora"

\* C20 witness: the name fixer has rewritten 'Polygonum multiflorum Thunb.'
C20_Witness ==
    /\ bScript = "fix-names"
    /\ ~bDryRun
    /\ \E k \in 1..Len(bDetails) :
          /\ Text(bOrig[k].scientificName) = "Polygonum multiflorum Thunb."
          /\ bDetails[k].status = "fixed"
          /\ Text(bFiles[k].scientificName) = "Reynoutria multiflora"
          /\ bWrites[k] = 1

\* a name the claims call already clean: it matches no skip pattern, holds no pattern
\* of the typo table, no author citation and no parenthesis
HasParenthesis(name) == \E k \in 1..Len(name) : name[k] \in {"(", ")"}
CleanName(name) ==
    /\ name # <<>>
    /\ \A k \in 1..Len(SKIP_PATTERNS) : ~Includes(name, SKIP_PATTERNS[k])
    /\ \A k \in 1..Len(TYPO_CORRECTIONS) : ~Includes(name, TYPO_CORRECTIONS[k].typo)
    /\ \A k \in 1..Len(AUTHOR_CITATIONS) : ~Includes(name, AUTHOR_CITATIONS[k])
    /\ ~HasParenthesis(name)

\* C21: a scientific name that is already clean, 'Ziziphus jujuba var. spinosa' with
\* its rank abbreviation included, is returned by the name normalizer unchanged: the
\* entity is reported unchanged and its file keeps the name.
C21_CleanNameUnchanged ==
    bScript = "fix-names"
    => \A k \in 1..Len(bDetails) :
          CleanName(bDetails[k].original)
          => /\ bDetails[k].status = "unchanged"
             /\ Text(fixScientificName(bDetails[k].original).name)
                  = Text(bDetails[k].original)
             /\ bFiles[k].scientificName = bDetails[k].original

\* the tokens of a name: its maximal runs of atoms without a space
RECURSIVE TokensFrom(_, _)
TokensFrom(s, cur) ==
    IF s = <<>> THEN (IF cur = <<>> THEN {} ELSE {cur})
    ELSE IF Head(s) = " "
    THEN (IF cur = <<>> THEN {} ELSE {cur}) \cup TokensFrom(Tail(s), <<>>)
    ELSE TokensFrom(Tail(s), Append(cur, Head(s)))
Tokens(name) == TokensFrom(name, <<>>)
TokenTexts(name) == {Text(t) : t \in Tokens(name)}

\* the token is a word: letters only
IsWord(token) == \A k \in 1..Len(token) : token[k] \notin {".", ",", "(", ")"}

\* the token is, as a whole, an entry of AUTHOR_CITATIONS
IsCitation(token) ==
    \E k \in 1..Len(AUTHOR_CITATIONS) : Text(AUTHOR_CITATIONS[k]) = Text(token)

\* the name a result of processEntity leaves in the entity
ResultName(result) == IF result.status = "fixed" THEN result.fixed ELSE result.original

\* C22: the name normalizer strips an author abbreviation only where it is a whole
\* token: in a name without a pattern of the typo table, a token that is a citation
\* is gone from the result, and every word that is not a citation, a genus that
\* begins with 'Ma' included, is a token of the result as it was.
C22_CitationsWholeTokenOnly ==
    bScript = "fix-names"
    => \A k \in 1..Len(bDetails) :
          (/\ bDetails[k].reason = ""
           /\ \A t \in 1..Len(TYPO_CORRECTIONS) :
                 ~Includes(bDetails[k].original, TYPO_CORRECTIONS[t].typo))
          => \A token \in Tokens(bDetails[k].original) :
                /\ IsCitation(token) => Text(token) \notin TokenTexts(ResultName(bDetails[k]))
                /\ (IsWord(token) /\ ~IsCitation(token))
                      => Text(token) \in TokenTexts(ResultName(bDetails[k]))

\* the name matches a skip pattern of the name fixer
NonScientific(name) == \E k \in 1..Len(SKIP_PATTERNS) : Includes(name, SKIP_PATTERNS[k])

\* C23: a scientific name that matches a skip pattern is flagged skipped by the name
\* normalizer, and no linker submits such a name to its external service.
C23_SkippedNeverSubmitted ==
    /\ bScript = "fix-names"
        => \A k \in 1..Len(bDetails) :
              NonScientific(bDetails[k].original)
              => (bDetails[k].status = "skipped" /\ bDetails[k].reason = "non-scientific")
    /\ \A c \in 1..Len(calls) : ~NonScientific(calls[c].name)

\* the identity-critical multilingual fields
CriticalFields == {"name"}

\* the multilingual fields validate-data.js checks in a plant entity
PlantLanguageFields == {"name", "description", "commonName"}

\* C24: in the completeness validator every language of the minimum set that a
\* multilingual field of a plant entity lacks yields a missing-translation finding:
\* an error for the identity-critical field name, a warning and no error for any
\* other field, so that a document whose only defect is a missing translation of a
\* field such as description is counted valid.
C24_MissingTranslationSeverity ==
    \A k \in 1..Len(bDetails) :
        (/\ bScript = "validate-data"
         /\ Validated(k)
         /\ DataFileType(bFiles[k].path) = "plant-entity")
        => /\ \A f \in PlantLanguageFields, n \in 1..Len(REQUIRED_LANGUAGES) :
                 (/\ bFiles[k].maps[f].kind = "map"
                  /\ REQUIRED_LANGUAGES[n] \notin bFiles[k].maps[f].langs)
                 => IF f \in CriticalFields
                    THEN \E e \in 1..Len(bDetails[k].errors) :
                            bDetails[k].errors[e]
                              = LangProblem("language", f, REQUIRED_LANGUAGES[n])
                    ELSE /\ \E w \in 1..Len(bDetails[k].warnings) :
                               bDetails[k].warnings[w]
                                 = LangProblem("language", f, REQUIRED_LANGUAGES[n])
                         /\ \A e \in 1..Len(bDetails[k].errors) :
                               bDetails[k].errors[e].field # f
           /\ (\A e \in 1..Len(bDetails[k].errors) :
                  /\ bDetails[k].errors[e].kind = "language"
                  /\ bDetails[k].errors[e].field \notin CriticalFields)
              => bDetails[k].valid

\* C25: for a TCM profile the structural validator (validate.js) answers every
\* un-prefixed generic content field that is present (history, traditionalUsage,
\* modernResearch, functions) with a scope warning that suggests the prefixed name,
\* whether or not the prefixed field is present too, and with no error.
C25_GenericFieldAlwaysWarned ==
    \A k \in 1..Len(bDetails) :
        (/\ bScript = "validate"
         /\ Validated(k)
         /\ getEntityType(bFiles[k].path) = "tcm-herb")
        => \A g \in 1..Len(genericContentProps) :
              VHas(bFiles[k], genericContentProps[g])
              => /\ \E w \in 1..Len(bDetails[k].warnings) :
                       bDetails[k].warnings[w]
                         = Problem("generic-content", genericContentProps[g])
                 /\ \A e \in 1..Len(bDetails[k].errors) :
                       bDetails[k].errors[e].field # genericContentProps[g]

\* the names the linker has submitted for the current document, in the order of the
\* calls: every GBIF match request, every Wikidata label search (the closing SPARQL
\* query repeats the first name and is not a search term)
SubmittedNames ==
    [k \in 1..(IF script = "wikidata" /\ pc # "rest" /\ calls # <<>>
               THEN Len(calls) - 1 ELSE Len(calls)) |-> calls[k].name]

\* C26: when every candidate name has been tried without an accepted match the
\* linker returns not_found with exactly the names it submitted to the service, in
\* the order searched, and the run counts the entity among those its summary lists
\* for manual review.
C26_NotFoundCarriesSearched ==
    /\ (Processed /\ LastResult.status = "not_found")
        => LastResult.searched = SubmittedNames
    /\ results.notFound
        = Len(SelectSeq(results.details, LAMBDA r : r.status = "not_found"))

\* the language tags of the language maps of the repository
LanguageTags == {"en", "zh-Hant", "zh-Hans", "hi", "sa"}

\* C27: the language-map shape check of the structural validator raises no
\* language-code warning for a name whose keys are all recognised language tags, a
\* map that holds only zh-Hant and zh-Hans included.
C27_RecognisedTagsNotWarned ==
    \A k \in 1..Len(bDetails) :
        (/\ bScript = "validate"
         /\ Validated(k)
         /\ getEntityType(bFiles[k].path) = "plant"
         /\ bFiles[k].maps["name"].kind = "map"
         /\ bFiles[k].maps["name"].langs # {}
         /\ bFiles[k].maps["name"].langs \subseteq LanguageTags)
        => \A w \in 1..Len(bDetails[k].warnings) :
              bDetails[k].warnings[w] # Problem("language-codes", "name")

\* the profile file parses and its derivedFromPlant, as an object or as a string,
\* names a plant entity the build has parsed
RefersToPlant(file) ==
    /\ file.ok
    /\ file.kind = "tcm"
    /\ file.plantRef.form \in {"object", "string"}
    /\ \E p \in 1..Len(ParsedPlants) : ParsedPlants[p].slug = file.plantRef.slug

\* C28: a profile whose derivedFromPlant names a plant, as '@id' plant/{slug}, as
\* '@id' plant/{slug}#{part} or as the string plant/{slug}, is joined by the index
\* builder to the plant {slug}: the merged index holds the profile's herb entry
\* under that slug, and the plant is not a plant-only entry as well.
C28_ProfileJoinedToPlant ==
    (bScript = "build-index" /\ bPc = "exited")
    => \A k \in 1..Len(bFiles) :
          RefersToPlant(bFiles[k])
          => /\ \E e \in 1..Len(bSummary.herbs) :
                   /\ bSummary.herbs[e].type = "herb"
                   /\ bSummary.herbs[e].tcmSlug = bFiles[k].slug
                   /\ bSummary.herbs[e].slug = bFiles[k].plantRef.slug
             /\ \A e \in 1..Len(bSummary.herbs) :
                   bSummary.herbs[e].type = "plant"
                   => bSummary.herbs[e].slug # bFiles[k].plantRef.slug

\* C29: after any sequence of files the summary of the completeness validator has
\* totalFiles equal to validFiles plus invalidFiles and equal to the number of
\* entries of results.files, files that fail to parse included.
C29_TotalIsValidPlusInvalid ==
    bScript = "validate-data"
    => /\ bSummary.totalFiles = bSummary.validFiles + bSummary.invalidFiles
       /\ bSummary.totalFiles = Len(bDetails)

\* C30: the name fixer is idempotent on its own output: the normalizer returns the
\* name it has returned when it is given that name again, so that a run over a
\* corpus that is already fixed reports no fixed entity and no file is ever written
\* a second time.
C30_FixerIdempotent ==
    bScript = "fix-names"
    => /\ \A k \in 1..Len(bDetails) :
             bDetails[k].status = "fixed"
             => /\ ~fixScientificName(bDetails[k].fixed).skipped
                /\ Text(fixScientificName(bDetails[k].fixed).name) = Text(bDetails[k].fixed)
                /\ processEntity(Entity(bDetails[k].fixed)).status = "unchanged"
       /\ \A k \in 1..Len(bWrites) : bWrites[k] <= 1

====
